---- MODULE Spec2Model ----
(***************************************************************************)
(* Model of the inventory-management backend: the relational tables of     *)
(* migrations/1_create_tables.up.sql and 2_add_staff_table.up.sql, and the *)
(* request handlers of products.ts (products and inventory transactions), *)
(* assets.ts and the staff service, with the browser session of the       *)
(* frontend (Layout, App, ProductForm, TransactionForm) in ui.             *)
(*                                                                         *)
(* A step of the model is the execution of one SQL statement by the        *)
(* database together with the handler code that runs up to the next        *)
(* statement.  Handlers made of a single statement are one step; the       *)
(* handlers with several statements (createProduct, createTransaction,     *)
(* createMaintenance) are run by processes whose statements interleave.    *)
(* The tables hold the committed rows.  The statements of createTransaction*)
(* run in one database transaction (READ COMMITTED): its writes are kept   *)
(* in the process until COMMIT, the row locks it owns follow from its      *)
(* position.                                                               *)
(***************************************************************************)
EXTENDS Integers, FiniteSets, Sequences, TLC

VARIABLES products, inventory, transactions, staff, assets, maintenance,
          seq, now, call, resp, ui

tables == <<products, inventory, transactions, staff, assets, maintenance>>
vars == <<products, inventory, transactions, staff, assets, maintenance,
          seq, now, call, resp, ui>>

----------------------------------------------------------------------------
(* Bounds *)

\* Number of request handlers that may be in flight at the same time.
NumProcs == 2
\* Largest id the sequences of products, staff and assets hand out.
MaxProducts == 2
MaxStaff == 2
MaxAssets == 2
\* Largest absolute quantity of a transaction request.
MaxReqQty == 1
\* Largest value of the INTEGER column quantity_on_hand (scaled).
IntMax == 2
\* Spec: products created and transactions begun.
StockProducts == 1
StockTx == 3
\* SpecKeys: products, staff members and assets created, transactions and
\* maintenance requests begun.
KeysProducts == 2
KeysStaff == 1
KeysAssets == 2
KeysTx == 2
KeysMaint == 1
\* SpecFields: rows created in each of products, staff and assets.
FieldsRows == 1
\* SpecReport: products created and transactions begun.
ReportProducts == 2
ReportTx == 2
\* Products, transactions and the largest reorder level of SpecLowStock.
LowStockProducts == 2
LowStockTx == 2
LowStockReorder == 2
\* SpecUi: products created and transactions begun.
UiProducts == 1
UiTx == 1

Procs == 1..NumProcs

----------------------------------------------------------------------------
(* Values *)

\* An optional request field or a nullable column: << >> is undefined/NULL,
\* <<v>> is the value v.
Undefined == << >>
Some(v) == <<v>>
IsNull(o) == o = << >>

\* JavaScript truthiness of an optional number: undefined and 0 are falsy.
Truthy(o) == o # << >> /\ o[1] # 0

Skus == {"s1", "s2"}
Names == {"n1", "n2"}
TransactionTypes == {"RECEIVE", "ISSUE", "ADJUSTMENT"}
Quantities == (0 - MaxReqQty)..MaxReqQty
EmployeeIds == {"e1", "e2"}
Emails == {Undefined, Some("m1")}
AssetTags == {"t1", "t2"}
Descriptions == {Undefined, Some("d1"), Some("d2")}
Categories == {Undefined, Some("c1"), Some("Uncategorized")}

\* A JavaScript Date: a calendar day and the time of day within it.
Dates == [day : 1..2, ms : 0..1]

\* A Date bound to a column of type DATE: the column keeps the calendar
\* day and no time of day.
ToDate(o) == IF IsNull(o) THEN Undefined ELSE Some(o[1].day)

\* A column of type DATE read into a Date: midnight of that day.
FromDate(c) == IF IsNull(c) THEN Undefined ELSE Some([day |-> c[1], ms |-> 0])

\* The ids a request may name: every value a sequence may hand out; such
\* an id names no row before the row is created and after it is deleted.
ProductIds == 1..MaxProducts
StaffIds == 1..MaxStaff
AssetIds == 1..MaxAssets

NoReq == [none |-> TRUE]
Idle == [pc |-> "idle", op |-> "none", req |-> NoReq, ins |-> Undefined,
         upd |-> Undefined, err |-> "none"]

\* resp is what the last step returned to its caller; a step that ends no
\* request returns nothing.
Response(op, status, req, result) ==
  [op |-> op, status |-> status, req |-> req, result |-> result]
NoResponse == Response("none", "none", NoReq, Undefined)

----------------------------------------------------------------------------
(* Tables and locks *)

Remove(f, id) == [i \in DOMAIN f \ {id} |-> f[i]]

\* The rows of the table inventory that belong to product pid.
InventoryOf(pid) == {r \in inventory : r.product_id = pid}

\* inventory.quantity_available, GENERATED ALWAYS AS
\* (quantity_on_hand - quantity_reserved).
QuantityAvailable(r) == r.quantity_on_hand - r.quantity_reserved

\* Variant of Generated: quantity_available is a plain column with
\* DEFAULT 0 that no statement assigns.
NotGenerated(r) ==
  [f \in DOMAIN r \cup {"quantity_available"} |->
     IF f # "quantity_available" THEN r[f]
     ELSE IF f \in DOMAIN r THEN r[f] ELSE 0]

\* A row of inventory as INSERT and UPDATE store it: the generated column
\* is computed from the other columns of the row.
Generated(r) ==
  [f \in DOMAIN r \cup {"quantity_available"} |->
     IF f = "quantity_available" THEN QuantityAvailable(r) ELSE r[f]]

\* The row an open transaction has inserted into inventory_transactions.
Inserted(p) == call[p].op = "createTransaction" /\ call[p].ins # Undefined

\* The INSERT of a referencing row holds a FOR KEY SHARE lock on the
\* referenced products / staff row until its transaction ends; DELETE of
\* that row waits for it.
ProductKeyShared(id) ==
  \E p \in Procs : Inserted(p) /\ call[p].ins[1].product_id = id
StaffKeyShared(id) ==
  \E p \in Procs : Inserted(p) /\ call[p].ins[1].staff_id = Some(id)

\* Variant of InventoryLocked: the UPDATE does not wait for the row lock
\* (the new quantity is computed from a value read earlier).
InventoryNeverLocked(pid, self) == FALSE

\* The UPDATE of a transaction holds the lock of the inventory rows of its
\* product until the transaction ends; another UPDATE of them waits.
InventoryLocked(pid, self) ==
  \E p \in Procs \ {self} :
    /\ call[p].op = "createTransaction"
    /\ call[p].upd # Undefined
    /\ call[p].req.productId = pid

\* The column list and VALUES of the INSERT INTO products; an undefined
\* field is bound as NULL.
ProductValues(req) ==
  [name |-> req.name, description |-> req.description, sku |-> req.sku,
   category |-> req.category, unit_price |-> req.unitPrice,
   reorder_level |-> req.reorderLevel,
   max_stock_level |-> req.maxStockLevel]

\* The SET list of the UPDATE products, applied to a row: every column
\* is assigned from the request, an undefined field as NULL.
ProductSet(row, req) ==
  [name |-> req.name, description |-> req.description, sku |-> req.sku,
   category |-> req.category, unit_price |-> req.unitPrice,
   reorder_level |-> req.reorderLevel,
   max_stock_level |-> req.maxStockLevel]

\* The record RETURNING and SELECT build from a row of products.
ProductRecord(id, row) == [id |-> id, row |-> row]

\* UNIQUE (sku): some row other than id carries the sku.
SkuTaken(sku, id) ==
  \E i \in DOMAIN products \ {id} : products[i].sku = sku

\* ProductForm, useEffect without product: the values reset() gives the
\* form (unitOfMeasure is left out, as in the rows of products).
BlankProductForm ==
  [name |-> "", description |-> "", sku |-> "", category |-> "",
   unitPrice |-> 0, reorderLevel |-> 0, maxStockLevel |-> 0]

\* The state of Products and its ProductForm when the page is mounted:
\* isFormOpen, editingProduct, and the values and errors of useForm.
ClosedProductForm ==
  [isOpen |-> FALSE, product |-> Undefined, values |-> BlankProductForm,
   errors |-> {}, isSubmitted |-> FALSE]

\* The state of Transactions and its TransactionForm when the page is
\* mounted: useForm() without default values.
NewTransactionForm ==
  [isOpen |-> FALSE,
   values |-> [productId |-> Undefined, transactionType |-> Undefined,
               quantity |-> Undefined, staffId |-> Undefined],
   errors |-> {}, isSubmitted |-> FALSE]

\* The browser session at a location: the pages are mounted anew, the
\* cache of the query ['products'] outlives the page.  (Toasts are not
\* kept.)
Mounted(pathname, productsData) ==
  [pathname |-> pathname, productsData |-> productsData,
   productForm |-> ClosedProductForm,
   transactionForm |-> NewTransactionForm, pending |-> Undefined]

Init ==
  /\ ui = Mounted("/", Undefined)
  /\ products = << >>
  /\ inventory = {}
  /\ transactions = {}
  /\ staff = << >>
  /\ assets = << >>
  /\ maintenance = {}
  /\ seq = [products |-> 0, inventory |-> 0, transactions |-> 0,
            staff |-> 0, assets |-> 0, maintenance |-> 0]
  /\ now = 0
  /\ call = [p \in Procs |-> Idle]
  /\ resp = NoResponse

Return(p, op, status, req, result) ==
  /\ call' = [call EXCEPT ![p] = Idle]
  /\ resp' = Response(op, status, req, result)

----------------------------------------------------------------------------
(* products.ts: products *)

\* createProduct, first statement: INSERT INTO products ... RETURNING.
CreateProductInsert(p, req) ==
  /\ call[p].pc = "idle"
  /\ seq' = [seq EXCEPT !.products = @ + 1]
  /\ IF SkuTaken(req.sku, 0)
       THEN /\ Return(p, "createProduct", "already_exists", req, Undefined)
            /\ UNCHANGED tables
       ELSE LET id == seq.products + 1
                product == ProductValues(req)
            IN /\ products' = products @@ (id :> product)
               /\ call' = [call EXCEPT ![p] =
                    [Idle EXCEPT !.pc = "cp_inventory", !.op = "createProduct",
                                 !.req = req,
                                 !.ins = Some(ProductRecord(id, product))]]
               /\ resp' = NoResponse
               /\ UNCHANGED <<inventory, transactions, staff, assets,
                              maintenance>>
  /\ now' = now

\* Variant of CreateProductInventory: the row is inserted with
\* quantity_on_hand 1.
CreateProductInventoryOne(p) ==
  /\ call[p].pc = "cp_inventory"
  /\ LET product == call[p].ins[1]
     IN /\ seq' = [seq EXCEPT !.inventory = @ + 1]
        /\ IF product.id \in DOMAIN products
             THEN /\ inventory' = inventory \cup
                       {Generated(
                          [id |-> seq.inventory + 1,
                           product_id |-> product.id,
                           quantity_on_hand |-> 1, quantity_reserved |-> 0,
                           last_updated |-> now])}
                  /\ Return(p, "createProduct", "ok", call[p].req,
                            Some(product))
             ELSE /\ inventory' = inventory
                  /\ Return(p, "createProduct", "internal", call[p].req,
                            Undefined)
        /\ UNCHANGED <<products, transactions, staff, assets, maintenance,
                       now>>

\* createProduct, second statement: INSERT INTO inventory (product_id, 0, 0).
CreateProductInventory(p) ==
  /\ call[p].pc = "cp_inventory"
  /\ LET product == call[p].ins[1]
     IN /\ seq' = [seq EXCEPT !.inventory = @ + 1]
        /\ IF product.id \in DOMAIN products
             THEN /\ inventory' = inventory \cup
                       {Generated(
                          [id |-> seq.inventory + 1,
                           product_id |-> product.id,
                           quantity_on_hand |-> 0, quantity_reserved |-> 0,
                           last_updated |-> now])}
                  /\ Return(p, "createProduct", "ok", call[p].req,
                            Some(product))
             ELSE /\ inventory' = inventory
                  /\ Return(p, "createProduct", "internal", call[p].req,
                            Undefined)
        /\ UNCHANGED <<products, transactions, staff, assets, maintenance,
                       now>>

\* getProduct: SELECT ... FROM products WHERE id.
GetProduct(p, id) ==
  /\ call[p].pc = "idle"
  /\ IF id \in DOMAIN products
       THEN Return(p, "getProduct", "ok", [id |-> id],
                   Some(ProductRecord(id, products[id])))
       ELSE Return(p, "getProduct", "not_found", [id |-> id], Undefined)
  /\ UNCHANGED <<tables, seq, now>>

\* The catch block of updateProduct: a unique violation (23505) becomes
\* already-exists, every other error thrown in the try block, the
\* APIError.notFound of the handler included, becomes internal.
UpdateCatch(error) ==
  IF error = "23505" THEN "already_exists" ELSE "internal"

\* updateProduct: UPDATE products SET ... WHERE id RETURNING.
UpdateProduct(p, req) ==
  /\ call[p].pc = "idle"
  /\ IF req.id \notin DOMAIN products
       THEN /\ Return(p, "updateProduct", UpdateCatch("not_found"), req,
                      Undefined)
            /\ UNCHANGED tables
       ELSE IF SkuTaken(req.sku, req.id)
         THEN /\ Return(p, "updateProduct", UpdateCatch("23505"), req,
                        Undefined)
              /\ UNCHANGED tables
         ELSE LET product == ProductSet(products[req.id], req)
              IN /\ products' = [products EXCEPT ![req.id] = product]
                 /\ Return(p, "updateProduct", "ok", req,
                           Some(ProductRecord(req.id, product)))
                 /\ UNCHANGED <<inventory, transactions, staff, assets,
                                maintenance>>
  /\ UNCHANGED <<seq, now>>

\* Variant of DeleteProduct: inventory_transactions.product_id references
\* products without ON DELETE CASCADE, the DELETE of a product that has
\* transactions fails.
DeleteProductRestrict(p, id) ==
  /\ call[p].pc = "idle"
  /\ ~ProductKeyShared(id)
  /\ IF id \in DOMAIN products /\ \A t \in transactions : t.product_id # id
       THEN /\ products' = Remove(products, id)
            /\ inventory' = {r \in inventory : r.product_id # id}
            /\ Return(p, "deleteProduct", "ok", [id |-> id], Undefined)
       ELSE /\ Return(p, "deleteProduct",
                      IF id \in DOMAIN products THEN "internal"
                      ELSE "not_found", [id |-> id], Undefined)
            /\ UNCHANGED <<products, inventory>>
  /\ UNCHANGED <<transactions, staff, assets, maintenance, seq, now>>

\* deleteProduct: DELETE FROM products WHERE id RETURNING id; the rows of
\* inventory and inventory_transactions go with it (ON DELETE CASCADE).
DeleteProduct(p, id) ==
  /\ call[p].pc = "idle"
  /\ ~ProductKeyShared(id)
  /\ IF id \in DOMAIN products
       THEN /\ products' = Remove(products, id)
            /\ inventory' = {r \in inventory : r.product_id # id}
            /\ transactions' = {t \in transactions : t.product_id # id}
            /\ Return(p, "deleteProduct", "ok", [id |-> id], Undefined)
       ELSE /\ Return(p, "deleteProduct", "not_found", [id |-> id], Undefined)
            /\ UNCHANGED <<products, inventory, transactions>>
  /\ UNCHANGED <<staff, assets, maintenance, seq, now>>

\* Variant of ListProducts: the transformation tests row.inventory, a key
\* the flat row does not have, and attaches no inventory.
ListProductsUnattached(p) ==
  /\ call[p].pc = "idle"
  /\ Return(p, "listProducts", "ok", NoReq,
            Some({[id |-> id, row |-> products[id], inventory |-> Undefined] :
                    id \in DOMAIN products}))
  /\ UNCHANGED <<tables, seq, now>>

\* listProducts: SELECT ... FROM products p LEFT JOIN inventory i ON p.id
\* = i.product_id, and the transformation of each row of the result: the
\* inventory is attached when inventory.id is truthy.  (The result is
\* held as a set; its order is ORDER BY p.name.)
ListProducts(p) ==
  /\ call[p].pc = "idle"
  /\ LET joined ==
           UNION {{[id |-> id, inventory |-> Some(i)] :
                     i \in InventoryOf(id)} : id \in DOMAIN products}
         outer ==
           {[id |-> id, inventory |-> Undefined] :
              id \in {j \in DOMAIN products : InventoryOf(j) = {}}}
         Transformed(row) ==
           [id |-> row.id, row |-> products[row.id],
            inventory |->
              IF ~IsNull(row.inventory) /\ Truthy(Some(row.inventory[1].id))
                THEN LET i == row.inventory[1]
                     IN Some([id |-> i.id, productId |-> row.id,
                              quantityOnHand |-> i.quantity_on_hand,
                              quantityReserved |-> i.quantity_reserved,
                              quantityAvailable |-> i.quantity_available,
                              lastUpdated |-> i.last_updated])
                ELSE Undefined]
     IN Return(p, "listProducts", "ok", NoReq,
               Some({Transformed(row) : row \in joined \cup outer}))
  /\ UNCHANGED <<tables, seq, now>>

----------------------------------------------------------------------------
(* products.ts: inventory transactions *)

\* Variant of QuantityChange: the case ISSUE does not negate the quantity.
QuantityChangeUnsigned(req) == req.quantity

\* The switch on req.transactionType of createTransaction.
QuantityChange(req) ==
  CASE req.transactionType = "RECEIVE" -> req.quantity
    [] req.transactionType = "ISSUE" -> 0 - req.quantity
    [] req.transactionType = "ADJUSTMENT" -> req.quantity

\* Variant of NegativeInventory: the check is missing.
NegativeInventoryUnchecked(quantity_on_hand) == FALSE

\* The check for negative inventory on the row the UPDATE returns.
NegativeInventory(quantity_on_hand) == quantity_on_hand < 0

\* The test `if (req.staffId)` that guards the staff lookup.
StaffIdProvided(req) == Truthy(req.staffId)

\* Variant of TransactionKeysExist: the column staff_id was added without
\* REFERENCES staff(id).
TransactionProductKeyExists(row) == row.product_id \in DOMAIN products

\* The foreign keys of a row of inventory_transactions, checked by INSERT.
TransactionKeysExist(row) ==
  /\ row.product_id \in DOMAIN products
  /\ IsNull(row.staff_id) \/ row.staff_id[1] \in DOMAIN staff

\* Variant of CreateTransactionBegin: the product is not looked up.
CreateTransactionBeginUnverified(p, req) ==
  /\ call[p].pc = "idle"
  /\ call' = [call EXCEPT ![p] =
       [Idle EXCEPT !.op = "createTransaction", !.req = req,
                    !.pc = IF StaffIdProvided(req)
                             THEN "ct_staff" ELSE "ct_insert"]]
  /\ resp' = NoResponse
  /\ UNCHANGED <<tables, seq, now>>

\* createTransaction: BEGIN, then SELECT id FROM products WHERE id.
CreateTransactionBegin(p, req) ==
  /\ call[p].pc = "idle"
  /\ IF req.productId \notin DOMAIN products
       THEN Return(p, "createTransaction", "not_found", req, Undefined)
       ELSE /\ call' = [call EXCEPT ![p] =
                 [Idle EXCEPT !.op = "createTransaction", !.req = req,
                              !.pc = IF StaffIdProvided(req)
                                       THEN "ct_staff" ELSE "ct_insert"]]
            /\ resp' = NoResponse
  /\ UNCHANGED <<tables, seq, now>>

\* createTransaction: SELECT id FROM staff WHERE id.
CreateTransactionStaff(p) ==
  /\ call[p].pc = "ct_staff"
  /\ IF call[p].req.staffId[1] \notin DOMAIN staff
       THEN Return(p, "createTransaction", "not_found", call[p].req,
                   Undefined)
       ELSE /\ call' = [call EXCEPT ![p].pc = "ct_insert"]
            /\ resp' = NoResponse
  /\ UNCHANGED <<tables, seq, now>>

\* createTransaction: INSERT INTO inventory_transactions ... RETURNING.  A
\* foreign-key violation (23503) is rethrown by the catch block after
\* ROLLBACK; it is no APIError, the response is an internal error.
CreateTransactionInsert(p) ==
  /\ call[p].pc = "ct_insert"
  /\ LET req == call[p].req
         row == [id |-> seq.transactions + 1, product_id |-> req.productId,
                 transaction_type |-> req.transactionType,
                 quantity |-> req.quantity, staff_id |-> req.staffId]
     IN /\ seq' = [seq EXCEPT !.transactions = @ + 1]
        /\ IF TransactionKeysExist(row)
             THEN /\ call' = [call EXCEPT ![p].pc = "ct_update",
                                          ![p].ins = Some(row)]
                  /\ resp' = NoResponse
             ELSE Return(p, "createTransaction", "internal", req, Undefined)
  /\ UNCHANGED <<tables, now>>

\* createTransaction: UPDATE inventory SET quantity_on_hand =
\* quantity_on_hand + change, last_updated = NOW() WHERE product_id
\* RETURNING quantity_on_hand, and the checks on the returned row.  The
\* statement waits while another transaction holds the lock of the row.
CreateTransactionUpdate(p) ==
  /\ call[p].pc = "ct_update"
  /\ ~InventoryLocked(call[p].req.productId, p)
  /\ now' = now + 1
  /\ LET req == call[p].req
         rows == InventoryOf(req.productId)
         updated == {Generated(
                       [r EXCEPT !.quantity_on_hand = @ + QuantityChange(req),
                                 !.last_updated = now']) : r \in rows}
     IN IF rows = {}
          THEN call' = [call EXCEPT ![p].pc = "ct_rollback",
                                    ![p].err = "internal"]
          ELSE IF \E r \in updated : r.quantity_on_hand > IntMax
            THEN \* integer out of range (22003)
                 call' = [call EXCEPT ![p].pc = "ct_rollback",
                                      ![p].err = "internal"]
            ELSE LET updatedInventory ==
                       CHOOSE r \in updated :
                         \A o \in updated : r.id <= o.id
                 IN IF NegativeInventory(updatedInventory.quantity_on_hand)
                      THEN call' = [call EXCEPT
                                      ![p].pc = "ct_rollback",
                                      ![p].upd = Some(updated),
                                      ![p].err = "invalid_argument"]
                      ELSE call' = [call EXCEPT ![p].pc = "ct_commit",
                                                ![p].upd = Some(updated)]
  /\ resp' = NoResponse
  /\ UNCHANGED <<tables, seq>>

\* createTransaction: COMMIT; the inserted row and the updated inventory
\* rows become visible together.
CreateTransactionCommit(p) ==
  /\ call[p].pc = "ct_commit"
  /\ LET updated == call[p].upd[1]
     IN inventory' = {r \in inventory :
                        \A u \in updated : u.id # r.id} \cup updated
  /\ transactions' = transactions \cup {call[p].ins[1]}
  /\ Return(p, "createTransaction", "ok", call[p].req, call[p].ins)
  /\ UNCHANGED <<products, staff, assets, maintenance, seq, now>>

\* Variant of CreateTransactionRollback: the catch block rethrows without
\* ROLLBACK and the connection commits what the transaction has written.
CreateTransactionNoRollback(p) ==
  /\ call[p].pc = "ct_rollback"
  /\ transactions' = transactions \cup {call[p].ins[1]}
  /\ Return(p, "createTransaction", call[p].err, call[p].req, Undefined)
  /\ UNCHANGED <<products, inventory, staff, assets, maintenance, seq, now>>

\* createTransaction: the catch block, ROLLBACK and rethrow.
CreateTransactionRollback(p) ==
  /\ call[p].pc = "ct_rollback"
  /\ Return(p, "createTransaction", call[p].err, call[p].req, Undefined)
  /\ UNCHANGED <<tables, seq, now>>

\* getProductTransactions: SELECT ... FROM inventory_transactions WHERE
\* product_id.
GetProductTransactions(p, productId) ==
  /\ call[p].pc = "idle"
  /\ Return(p, "getProductTransactions", "ok", [productId |-> productId],
            Some({t \in transactions : t.product_id = productId}))
  /\ UNCHANGED <<tables, seq, now>>

----------------------------------------------------------------------------
(* The staff service *)

\* Variant of StaffKeyTaken: the column email is not UNIQUE.
StaffEmployeeIdTaken(req, id) ==
  \E i \in DOMAIN staff \ {id} : staff[i].employee_id = req.employeeId

\* UNIQUE (employee_id) and UNIQUE (email) of the table staff; NULL emails
\* never collide.
StaffKeyTaken(req, id) ==
  \E i \in DOMAIN staff \ {id} :
    \/ staff[i].employee_id = req.employeeId
    \/ ~IsNull(req.email) /\ staff[i].email = req.email

\* The column list and VALUES of the INSERT INTO staff.
StaffValues(req) ==
  [employee_id |-> req.employeeId, email |-> req.email,
   hire_date |-> ToDate(req.hireDate)]

\* The SET list of the UPDATE staff, applied to a row.
StaffSet(row, req) ==
  [employee_id |-> req.employeeId, email |-> req.email,
   hire_date |-> ToDate(req.hireDate)]

\* The record RETURNING and SELECT build from a row of staff.
StaffRecord(id, row) ==
  [id |-> id, row |-> [row EXCEPT !.hire_date = FromDate(@)]]

\* createStaff: INSERT INTO staff ... RETURNING.
CreateStaff(p, req) ==
  /\ call[p].pc = "idle"
  /\ seq' = [seq EXCEPT !.staff = @ + 1]
  /\ IF StaffKeyTaken(req, 0)
       THEN /\ Return(p, "createStaff", "already_exists", req, Undefined)
            /\ staff' = staff
       ELSE LET id == seq.staff + 1
                row == StaffValues(req)
            IN /\ staff' = staff @@ (id :> row)
               /\ Return(p, "createStaff", "ok", req,
                         Some(StaffRecord(id, row)))
  /\ UNCHANGED <<products, inventory, transactions, assets, maintenance, now>>

\* getStaff: SELECT ... FROM staff WHERE id.
GetStaff(p, id) ==
  /\ call[p].pc = "idle"
  /\ IF id \in DOMAIN staff
       THEN Return(p, "getStaff", "ok", [id |-> id],
                   Some(StaffRecord(id, staff[id])))
       ELSE Return(p, "getStaff", "not_found", [id |-> id], Undefined)
  /\ UNCHANGED <<tables, seq, now>>

\* The catch block of updateStaff.
UpdateStaffCatch(error) ==
  IF error = "23505" THEN "already_exists" ELSE "internal"

\* updateStaff: UPDATE staff SET ... WHERE id RETURNING.
UpdateStaff(p, req) ==
  /\ call[p].pc = "idle"
  /\ IF req.id \notin DOMAIN staff
       THEN /\ Return(p, "updateStaff", UpdateStaffCatch("not_found"), req,
                      Undefined)
            /\ staff' = staff
       ELSE IF StaffKeyTaken(req, req.id)
         THEN /\ Return(p, "updateStaff", UpdateStaffCatch("23505"), req,
                        Undefined)
              /\ staff' = staff
         ELSE LET row == StaffSet(staff[req.id], req)
              IN /\ staff' = [staff EXCEPT ![req.id] = row]
                 /\ Return(p, "updateStaff", "ok", req,
                           Some(StaffRecord(req.id, row)))
  /\ UNCHANGED <<products, inventory, transactions, assets, maintenance,
                 seq, now>>

\* deleteStaff: DELETE FROM staff WHERE id RETURNING id.  The foreign key
\* Variant of DeleteStaff: inventory_transactions.staff_id references
\* staff ON DELETE SET NULL.
DeleteStaffSetNull(p, id) ==
  /\ call[p].pc = "idle"
  /\ ~StaffKeyShared(id)
  /\ IF id \notin DOMAIN staff
       THEN /\ Return(p, "deleteStaff", "not_found", [id |-> id], Undefined)
            /\ UNCHANGED <<staff, transactions>>
       ELSE /\ staff' = Remove(staff, id)
            /\ transactions' =
                 {IF t.staff_id = Some(id)
                    THEN [t EXCEPT !.staff_id = Undefined] ELSE t :
                    t \in transactions}
            /\ Return(p, "deleteStaff", "ok", [id |-> id], Undefined)
  /\ UNCHANGED <<products, inventory, assets, maintenance, seq, now>>

\* inventory_transactions.staff_id has no ON DELETE action: the statement
\* fails (23503) while a transaction row references the staff member, and
\* the handler does not catch the error.
DeleteStaff(p, id) ==
  /\ call[p].pc = "idle"
  /\ ~StaffKeyShared(id)
  /\ IF id \notin DOMAIN staff
       THEN /\ Return(p, "deleteStaff", "not_found", [id |-> id], Undefined)
            /\ staff' = staff
       ELSE IF \E t \in transactions : t.staff_id = Some(id)
         THEN /\ Return(p, "deleteStaff", "internal", [id |-> id], Undefined)
              /\ staff' = staff
         ELSE /\ staff' = Remove(staff, id)
              /\ Return(p, "deleteStaff", "ok", [id |-> id], Undefined)
  /\ UNCHANGED <<products, inventory, transactions, assets, maintenance,
                 seq, now>>

----------------------------------------------------------------------------
(* assets.ts *)

\* UNIQUE (asset_tag).
AssetTagTaken(tag, id) ==
  \E i \in DOMAIN assets \ {id} : assets[i].asset_tag = tag

\* Variant of AssetValues: the column description is missing from the
\* column list of the INSERT.
AssetValuesNoDescription(req) ==
  [asset_tag |-> req.assetTag, description |-> Undefined,
   purchase_date |-> ToDate(req.purchaseDate)]

\* The column list and VALUES of the INSERT INTO assets.
AssetValues(req) ==
  [asset_tag |-> req.assetTag, description |-> req.description,
   purchase_date |-> ToDate(req.purchaseDate)]

\* The SET list of the UPDATE assets, applied to a row.
AssetSet(row, req) ==
  [asset_tag |-> req.assetTag, description |-> req.description,
   purchase_date |-> ToDate(req.purchaseDate)]

\* The record RETURNING and SELECT build from a row of assets.
AssetRecord(id, row) ==
  [id |-> id, row |-> [row EXCEPT !.purchase_date = FromDate(@)]]

\* Variant of CreateAsset: the id is the smallest one no row carries, not
\* the next value of the sequence.
CreateAssetFreeId(p, req) ==
  /\ call[p].pc = "idle"
  /\ seq' = [seq EXCEPT !.assets = @ + 1]
  /\ IF AssetTagTaken(req.assetTag, 0)
       THEN /\ Return(p, "createAsset", "already_exists", req, Undefined)
            /\ assets' = assets
       ELSE LET id == CHOOSE i \in 1..(seq.assets + 1) :
                        /\ i \notin DOMAIN assets
                        /\ \A j \in 1..(i - 1) : j \in DOMAIN assets
                row == AssetValues(req)
            IN /\ assets' = assets @@ (id :> row)
               /\ Return(p, "createAsset", "ok", req,
                         Some(AssetRecord(id, row)))
  /\ UNCHANGED <<products, inventory, transactions, staff, maintenance, now>>

\* createAsset: INSERT INTO assets ... RETURNING.
CreateAsset(p, req) ==
  /\ call[p].pc = "idle"
  /\ seq' = [seq EXCEPT !.assets = @ + 1]
  /\ IF AssetTagTaken(req.assetTag, 0)
       THEN /\ Return(p, "createAsset", "already_exists", req, Undefined)
            /\ assets' = assets
       ELSE LET id == seq.assets + 1
                row == AssetValues(req)
            IN /\ assets' = assets @@ (id :> row)
               /\ Return(p, "createAsset", "ok", req,
                         Some(AssetRecord(id, row)))
  /\ UNCHANGED <<products, inventory, transactions, staff, maintenance, now>>

\* getAsset: SELECT ... FROM assets WHERE id.
GetAsset(p, id) ==
  /\ call[p].pc = "idle"
  /\ IF id \in DOMAIN assets
       THEN Return(p, "getAsset", "ok", [id |-> id],
                   Some(AssetRecord(id, assets[id])))
       ELSE Return(p, "getAsset", "not_found", [id |-> id], Undefined)
  /\ UNCHANGED <<tables, seq, now>>

\* The catch block of updateAsset.
UpdateAssetCatch(error) ==
  IF error = "23505" THEN "already_exists" ELSE "internal"

\* updateAsset: UPDATE assets SET ... WHERE id RETURNING.
UpdateAsset(p, req) ==
  /\ call[p].pc = "idle"
  /\ IF req.id \notin DOMAIN assets
       THEN /\ Return(p, "updateAsset", UpdateAssetCatch("not_found"), req,
                      Undefined)
            /\ assets' = assets
       ELSE IF AssetTagTaken(req.assetTag, req.id)
         THEN /\ Return(p, "updateAsset", UpdateAssetCatch("23505"), req,
                        Undefined)
              /\ assets' = assets
         ELSE LET row == AssetSet(assets[req.id], req)
              IN /\ assets' = [assets EXCEPT ![req.id] = row]
                 /\ Return(p, "updateAsset", "ok", req,
                           Some(AssetRecord(req.id, row)))
  /\ UNCHANGED <<products, inventory, transactions, staff, maintenance,
                 seq, now>>

\* Variant of DeleteAsset: the result of the DELETE is not looked at.
DeleteAssetUnchecked(p, id) ==
  /\ call[p].pc = "idle"
  /\ assets' = Remove(assets, id)
  /\ maintenance' = {m \in maintenance : m.asset_id # id}
  /\ Return(p, "deleteAsset", "ok", [id |-> id], Undefined)
  /\ UNCHANGED <<products, inventory, transactions, staff, seq, now>>

\* deleteAsset: DELETE FROM assets WHERE id RETURNING id; the rows of
\* asset_maintenance go with it (ON DELETE CASCADE).
DeleteAsset(p, id) ==
  /\ call[p].pc = "idle"
  /\ IF id \in DOMAIN assets
       THEN /\ assets' = Remove(assets, id)
            /\ maintenance' = {m \in maintenance : m.asset_id # id}
            /\ Return(p, "deleteAsset", "ok", [id |-> id], Undefined)
       ELSE /\ Return(p, "deleteAsset", "not_found", [id |-> id], Undefined)
            /\ UNCHANGED <<assets, maintenance>>
  /\ UNCHANGED <<products, inventory, transactions, staff, seq, now>>

\* createMaintenance, first statement: SELECT id FROM assets WHERE id.
CreateMaintenanceSelect(p, req) ==
  /\ call[p].pc = "idle"
  /\ IF req.assetId \notin DOMAIN assets
       THEN Return(p, "createMaintenance", "not_found", req, Undefined)
       ELSE /\ call' = [call EXCEPT ![p] =
                 [Idle EXCEPT !.pc = "cm_insert", !.op = "createMaintenance",
                              !.req = req]]
            /\ resp' = NoResponse
  /\ UNCHANGED <<tables, seq, now>>

\* The foreign key of a row of asset_maintenance, checked by INSERT.
MaintenanceKeyExists(row) == row.asset_id \in DOMAIN assets

\* createMaintenance, second statement: INSERT INTO asset_maintenance ...
\* RETURNING; a foreign-key violation (23503) is not caught.
CreateMaintenanceInsert(p) ==
  /\ call[p].pc = "cm_insert"
  /\ LET row == [id |-> seq.maintenance + 1,
                 asset_id |-> call[p].req.assetId]
     IN /\ seq' = [seq EXCEPT !.maintenance = @ + 1]
        /\ IF MaintenanceKeyExists(row)
             THEN /\ maintenance' = maintenance \cup {row}
                  /\ Return(p, "createMaintenance", "ok", call[p].req,
                            Some(row))
             ELSE /\ maintenance' = maintenance
                  /\ Return(p, "createMaintenance", "internal", call[p].req,
                            Undefined)
  /\ UNCHANGED <<products, inventory, transactions, staff, assets, now>>

\* Variant of GetAssetMaintenance: the WHERE clause is missing.
GetAssetMaintenanceUnfiltered(p, assetId) ==
  /\ call[p].pc = "idle"
  /\ Return(p, "getAssetMaintenance", "ok", [assetId |-> assetId],
            Some(maintenance))
  /\ UNCHANGED <<tables, seq, now>>

\* getAssetMaintenance: SELECT ... FROM asset_maintenance WHERE asset_id.
GetAssetMaintenance(p, assetId) ==
  /\ call[p].pc = "idle"
  /\ Return(p, "getAssetMaintenance", "ok", [assetId |-> assetId],
            Some({m \in maintenance : m.asset_id = assetId}))
  /\ UNCHANGED <<tables, seq, now>>

----------------------------------------------------------------------------
(* types.ts: reports *)

\* The rows of FROM products p JOIN inventory i ON p.id = i.product_id.
ProductsJoinInventory ==
  {[product_id |-> i.product_id, inventory_id |-> i.id,
    category |-> products[i.product_id].category,
    unit_price |-> products[i.product_id].unit_price,
    reorder_level |-> products[i.product_id].reorder_level,
    quantity_on_hand |-> i.quantity_on_hand] :
     i \in {r \in inventory : r.product_id \in DOMAIN products}}

\* SUM(p.unit_price * i.quantity_on_hand) over rows of the join, 0 for no
\* row (COALESCE).
RECURSIVE SumValue(_)
SumValue(rows) ==
  IF rows = {} THEN 0
  ELSE LET r == CHOOSE x \in rows : TRUE
       IN r.unit_price * r.quantity_on_hand + SumValue(rows \ {r})

\* `result?.count || 0`.
OrZero(n) == IF Truthy(Some(n)) THEN n ELSE 0

\* getInventoryReport, first query: SELECT COUNT(*) FROM products.
GetInventoryReportTotal(p) ==
  /\ call[p].pc = "idle"
  /\ call' = [call EXCEPT ![p] =
       [Idle EXCEPT !.pc = "ir_value", !.op = "getInventoryReport",
                    !.ins = Some([totalProducts |->
                                    OrZero(Cardinality(DOMAIN products))])]]
  /\ resp' = NoResponse
  /\ UNCHANGED <<tables, seq, now>>

\* getInventoryReport, second query: the total inventory value.
GetInventoryReportValue(p) ==
  /\ call[p].pc = "ir_value"
  /\ call' = [call EXCEPT ![p].pc = "ir_low",
                          ![p].ins = Some(@[1] @@ ("totalValue" :>
                                       OrZero(SumValue(ProductsJoinInventory))))]
  /\ resp' = NoResponse
  /\ UNCHANGED <<tables, seq, now>>

\* Variant of LowStock: the condition quantity_on_hand > 0 is missing.
LowStockOrOut(rows) == {j \in rows : j.quantity_on_hand <= j.reorder_level}

\* WHERE i.quantity_on_hand <= p.reorder_level AND i.quantity_on_hand > 0.
LowStock(rows) ==
  {j \in rows : j.quantity_on_hand <= j.reorder_level
                  /\ j.quantity_on_hand > 0}

\* getInventoryReport, third query: the count of low stock items.
GetInventoryReportLowStock(p) ==
  /\ call[p].pc = "ir_low"
  /\ call' = [call EXCEPT ![p].pc = "ir_out",
                          ![p].ins = Some(@[1] @@ ("lowStockItems" :>
                            OrZero(Cardinality(LowStock(ProductsJoinInventory)))))]
  /\ resp' = NoResponse
  /\ UNCHANGED <<tables, seq, now>>

\* getInventoryReport, fourth query: SELECT COUNT(*) FROM inventory WHERE
\* quantity_on_hand = 0.
GetInventoryReportOutOfStock(p) ==
  /\ call[p].pc = "ir_out"
  /\ call' = [call EXCEPT ![p].pc = "ir_categories",
                          ![p].ins = Some(@[1] @@ ("outOfStockItems" :>
                            OrZero(Cardinality(
                              {r \in inventory : r.quantity_on_hand = 0}))))]
  /\ resp' = NoResponse
  /\ UNCHANGED <<tables, seq, now>>

\* The categories breakdown: one row per value of p.category (NULL is a
\* group of its own), named COALESCE(p.category, 'Uncategorized'), in an
\* order that ORDER BY value DESC allows.
InventoryCategories ==
  LET rows == ProductsJoinInventory
      groups == {j.category : j \in rows}
      Group(c) ==
        LET members == {j \in rows : j.category = c}
        IN [category |-> IF IsNull(c) THEN "Uncategorized" ELSE c[1],
            count |-> Cardinality(members), value |-> SumValue(members)]
      n == Cardinality(groups)
      orders == {o \in [1..n -> groups] :
                   /\ \A a, b \in 1..n : a # b => o[a] # o[b]
                   /\ \A a, b \in 1..n :
                        a < b => Group(o[a]).value >= Group(o[b]).value}
  IN {[k \in 1..n |-> Group(o[k])] : o \in orders}

\* getInventoryReport, fifth query and the return of the report.
GetInventoryReportCategories(p) ==
  /\ call[p].pc = "ir_categories"
  /\ \E categories \in InventoryCategories :
       Return(p, "getInventoryReport", "ok", NoReq,
              Some(call[p].ins[1] @@ ("categories" :> categories)))
  /\ UNCHANGED <<tables, seq, now>>

\* The rows of getLowStockReport: FROM products p JOIN inventory i ...
\* WHERE i.quantity_on_hand <= p.reorder_level.
LowStockRows ==
  {[id |-> j.product_id, sku |-> products[j.product_id].sku,
    category |-> j.category, quantityOnHand |-> j.quantity_on_hand,
    reorderLevel |-> j.reorder_level, unitPrice |-> j.unit_price] :
     j \in {k \in ProductsJoinInventory :
              k.quantity_on_hand <= k.reorder_level}}

\* i.quantity_on_hand::float / NULLIF(p.reorder_level, 0): NULL for a
\* reorder level of 0, otherwise the quotient, held as numerator and
\* denominator.
StockRatio(row) ==
  IF row.reorderLevel = 0 THEN Undefined
  ELSE Some([num |-> row.quantityOnHand, den |-> row.reorderLevel])

\* x <= y for two quotients.
RatioLeq(x, y) ==
  IF x.den * y.den > 0 THEN x.num * y.den <= y.num * x.den
  ELSE x.num * y.den >= y.num * x.den

\* Variant of RatioAscending: NULL sorts before every value (NULLS FIRST).
RatioAscendingNullsFirst(a, b) ==
  \/ IsNull(StockRatio(a))
  \/ /\ ~IsNull(StockRatio(a)) /\ ~IsNull(StockRatio(b))
     /\ RatioLeq(StockRatio(a)[1], StockRatio(b)[1])

\* ORDER BY ... ASC allows row a before row b: ascending values, NULL
\* after every value (the default of ASC is NULLS LAST).
RatioAscending(a, b) ==
  \/ IsNull(StockRatio(b))
  \/ /\ ~IsNull(StockRatio(a)) /\ ~IsNull(StockRatio(b))
     /\ RatioLeq(StockRatio(a)[1], StockRatio(b)[1])

\* The results the query of getLowStockReport may return: its rows in an
\* order that ORDER BY allows.
LowStockReport ==
  LET rows == LowStockRows
      n == Cardinality(rows)
  IN {o \in [1..n -> rows] :
        /\ \A a, b \in 1..n : a # b => o[a] # o[b]
        /\ \A a, b \in 1..n : a < b => RatioAscending(o[a], o[b])}

\* getLowStockReport: the query and the return of { products }.
GetLowStockReport(p) ==
  /\ call[p].pc = "idle"
  /\ \E report \in LowStockReport :
       Return(p, "getLowStockReport", "ok", NoReq, Some(report))
  /\ UNCHANGED <<tables, seq, now>>

\* Dashboard, card 'Low Stock Items': inventoryReport?.lowStockItems || 0.
DashboardLowStockItems(inventoryReport) ==
  IF IsNull(inventoryReport) THEN 0
  ELSE OrZero(inventoryReport[1].lowStockItems)

\* Reports, card 'Low Stock Items': lowStockReport?.products.length || 0.
ReportsLowStockItems(lowStockReport) ==
  IF IsNull(lowStockReport) THEN 0 ELSE OrZero(Len(lowStockReport[1]))

----------------------------------------------------------------------------
(* frontend: Layout, App, ProductForm, TransactionForm *)

\* Layout: the navigation items.
navigation ==
  <<[name |-> "Dashboard", href |-> "/"],
    [name |-> "Products", href |-> "/products"],
    [name |-> "Transactions", href |-> "/transactions"],
    [name |-> "Assets", href |-> "/assets"],
    [name |-> "Staff", href |-> "/staff"],
    [name |-> "Reports", href |-> "/reports"]>>

\* App: the element of the Route that matches the location; Routes
\* renders nothing when no Route matches.
Routes(pathname) ==
  CASE pathname = "/" -> Some("Dashboard")
    [] pathname = "/products" -> Some("Products")
    [] pathname = "/transactions" -> Some("Transactions")
    [] pathname = "/assets" -> Some("Assets")
    [] pathname = "/reports" -> Some("Reports")
    [] OTHER -> Undefined

\* A step of the browser alone: no request ends, the database and the
\* handlers are as they were.
Browser(next) ==
  /\ ui' = next
  /\ resp' = NoResponse
  /\ UNCHANGED <<tables, seq, now, call>>

\* A dialog of the page is open (the dialogs are modal).
DialogOpen == ui.productForm.isOpen \/ ui.transactionForm.isOpen

\* Layout: a click on the Link of a navigation item.  The page of the
\* old location is unmounted and the element of the new location, if
\* any, is mounted.  (The model follows a user who waits for a pending
\* mutation before leaving the page.)
Navigate(item) ==
  /\ ~DialogOpen /\ IsNull(ui.pending)
  /\ Browser(Mounted(item.href, ui.productsData))

\* useQuery ['products'] of Products and Transactions: listProducts runs
\* and its result becomes the data of the query.  (Of each product the
\* data keeps what the forms read, its id and its fields.)
ProductsQuery(p) ==
  /\ ui.pathname \in {"/products", "/transactions"}
  /\ ListProducts(p)
  /\ ui' = [ui EXCEPT !.productsData =
              Some({[id |-> e.id, row |-> e.row] : e \in resp'.result[1]})]

\* `x || ''` of a string field.
OrEmpty(o) == IF IsNull(o) THEN "" ELSE o[1]

\* `x || 0` of a number field.
OrZeroOf(o) == IF Truthy(o) THEN o[1] ELSE 0

\* ProductForm, useEffect with a product: the values reset() gives the
\* form.
ProductFormReset(product) ==
  [name |-> product.row.name,
   description |-> OrEmpty(product.row.description),
   sku |-> product.row.sku,
   category |-> OrEmpty(product.row.category),
   unitPrice |-> product.row.unit_price,
   reorderLevel |-> product.row.reorder_level,
   maxStockLevel |-> OrZeroOf(product.row.max_stock_level)]

\* ProductForm: the fields whose register() rules fail (required for
\* name, sku, unitPrice and reorderLevel, min 0 for the numbers).
ProductFormErrors(values) ==
  {f \in {"name", "sku"} : values[f] = ""}
    \cup {f \in {"unitPrice", "reorderLevel", "maxStockLevel"} :
            values[f] < 0}

\* The request the mutations of ProductForm send: the form data, every
\* field defined.
ProductFormRequest(data) ==
  [name |-> data.name, description |-> Some(data.description),
   sku |-> data.sku, category |-> Some(data.category),
   unitPrice |-> data.unitPrice, reorderLevel |-> data.reorderLevel,
   maxStockLevel |-> Some(data.maxStockLevel)]

\* Products: the button 'Add Product', setIsFormOpen(true).
ProductFormAdd ==
  /\ ui.pathname = "/products" /\ ~ui.productForm.isOpen
  /\ Browser([ui EXCEPT !.productForm.isOpen = TRUE])

\* Products: handleEdit(product) on a product of the list, and the
\* useEffect of ProductForm that follows the new product.
ProductFormEdit(product) ==
  /\ ui.pathname = "/products" /\ ~ui.productForm.isOpen
  /\ Browser([ui EXCEPT !.productForm =
       [isOpen |-> TRUE, product |-> Some(product),
        values |-> ProductFormReset(product), errors |-> {},
        isSubmitted |-> FALSE]])

\* ProductForm: the user changes a registered input; after a submit the
\* rules of the input are checked again on every change.
ProductFormChange(field, value) ==
  /\ ui.productForm.isOpen
  /\ LET form == ui.productForm
         values == [form.values EXCEPT ![field] = value]
     IN Browser([ui EXCEPT !.productForm.values = values,
          !.productForm.errors =
            IF form.isSubmitted
              THEN (form.errors \ {field})
                     \cup (ProductFormErrors(values) \cap {field})
              ELSE form.errors])

\* Products: handleFormClose (the button Cancel, a click outside the
\* dialog); when editingProduct changes to null the useEffect of
\* ProductForm resets the form to the blank values.
ProductFormClose ==
  /\ ui.productForm.isOpen
  /\ Browser([ui EXCEPT !.productForm =
       IF IsNull(ui.productForm.product)
         THEN [ui.productForm EXCEPT !.isOpen = FALSE]
         ELSE ClosedProductForm])

\* onSuccess of a mutation: onClose() and reset().
OnSuccess(u, mutation) ==
  IF mutation = "createTransaction"
    THEN [u EXCEPT !.pending = Undefined,
                   !.transactionForm = NewTransactionForm]
    ELSE [u EXCEPT !.pending = Undefined,
                   !.productForm = ClosedProductForm]

\* onError of a mutation: the dialog stays as it is.
OnError(u, mutation) == [u EXCEPT !.pending = Undefined]

\* The browser session u after a step of process p: when the step ends
\* the request of the pending mutation, its onSuccess or onError runs.
Settle(u, p) ==
  IF ~IsNull(u.pending) /\ u.pending[1].proc = p /\ call'[p].pc = "idle"
    THEN IF resp'.status = "ok" THEN OnSuccess(u, u.pending[1].mutation)
         ELSE OnError(u, u.pending[1].mutation)
    ELSE u

\* ProductForm: handleSubmit(onSubmit).  The rules of the registered
\* inputs are checked; when none fails onSubmit hands the data to
\* updateMutation (a product is edited) or to createMutation, whose
\* request process p serves.
ProductFormSubmit(p) ==
  /\ ui.productForm.isOpen /\ IsNull(ui.pending)
  /\ LET form == ui.productForm
         errors == ProductFormErrors(form.values)
         isEditing == ~IsNull(form.product)
         sent == [ui EXCEPT
                    !.productForm.errors = {},
                    !.productForm.isSubmitted = TRUE,
                    !.pending =
                      Some([proc |-> p,
                            mutation |-> IF isEditing THEN "updateProduct"
                                         ELSE "createProduct"])]
     IN IF errors # {}
          THEN Browser([ui EXCEPT !.productForm.errors = errors,
                                  !.productForm.isSubmitted = TRUE])
          ELSE /\ IF isEditing
                    THEN UpdateProduct(p, ("id" :> form.product[1].id)
                                            @@ ProductFormRequest(form.values))
                    ELSE CreateProductInsert(p,
                                             ProductFormRequest(form.values))
               /\ ui' = Settle(sent, p)

\* Transactions: the button 'New Transaction', setIsFormOpen(true).
TransactionFormOpen ==
  /\ ui.pathname = "/transactions" /\ ~ui.transactionForm.isOpen
  /\ Browser([ui EXCEPT !.transactionForm.isOpen = TRUE])

\* Transactions: handleFormClose; useForm keeps its values.
TransactionFormClose ==
  /\ ui.transactionForm.isOpen
  /\ Browser([ui EXCEPT !.transactionForm.isOpen = FALSE])

\* TransactionForm: the Select of the product and the Select of the
\* transaction type, onValueChange: setValue(name, value).  Neither name
\* is registered, no rule belongs to it.
TransactionFormSelect(name, value) ==
  /\ ui.transactionForm.isOpen
  /\ name = "productId"
       => /\ ~IsNull(ui.productsData)
          /\ \E product \in ui.productsData[1] : Some(product.id) = value
  /\ Browser([ui EXCEPT !.transactionForm.values[name] = value])

\* TransactionForm: the rules of the input quantity (required, validate)
\* that fail on the values; an empty input is Undefined.
TransactionFormErrors(values) ==
  LET value == values.quantity
      transactionType == values.transactionType
  IN IF IsNull(value) THEN {"quantity"}
     ELSE IF transactionType = Some("RECEIVE") /\ value[1] <= 0
       THEN {"quantity"}
     ELSE IF transactionType = Some("ISSUE") /\ value[1] <= 0
       THEN {"quantity"}
     ELSE IF value[1] = 0 THEN {"quantity"}
     ELSE {}

\* TransactionForm: the user changes the input quantity.
TransactionFormChange(value) ==
  /\ ui.transactionForm.isOpen
  /\ LET form == ui.transactionForm
         values == [form.values EXCEPT !.quantity = value]
     IN Browser([ui EXCEPT !.transactionForm.values = values,
          !.transactionForm.errors =
            IF form.isSubmitted THEN TransactionFormErrors(values)
            ELSE form.errors])

\* createMutation, mutationFn: { ...data, staffId: data.staffId ||
\* undefined }.
TransactionPayload(data) ==
  [data EXCEPT !.staffId = IF Truthy(data.staffId) THEN data.staffId
                           ELSE Undefined]

\* The payload has the fields CreateTransactionRequest requires.
IsCreateTransactionRequest(payload) ==
  /\ ~IsNull(payload.productId)
  /\ ~IsNull(payload.transactionType)
  /\ ~IsNull(payload.quantity)

\* api<CreateTransactionRequest, ...>: a request that lacks a required
\* field of the request type does not reach the handler.
CreateTransactionInvalid(p, payload) ==
  /\ call[p].pc = "idle"
  /\ Return(p, "createTransaction", "invalid_argument", payload, Undefined)
  /\ UNCHANGED <<tables, seq, now>>

\* TransactionForm: handleSubmit(onSubmit).  The rules of the registered
\* inputs are checked; when none fails onSubmit hands the data to
\* createMutation, whose request process p serves.
TransactionFormSubmit(p) ==
  /\ ui.transactionForm.isOpen /\ IsNull(ui.pending)
  /\ LET form == ui.transactionForm
         errors == TransactionFormErrors(form.values)
         payload == TransactionPayload(form.values)
         sent == [ui EXCEPT
                    !.transactionForm.errors = {},
                    !.transactionForm.isSubmitted = TRUE,
                    !.pending = Some([proc |-> p,
                                      mutation |-> "createTransaction"])]
     IN IF errors # {}
          THEN Browser([ui EXCEPT !.transactionForm.errors = errors,
                                  !.transactionForm.isSubmitted = TRUE])
          ELSE /\ IF IsCreateTransactionRequest(payload)
                    THEN CreateTransactionBegin(p,
                           [productId |-> payload.productId[1],
                            transactionType |-> payload.transactionType[1],
                            quantity |-> payload.quantity[1],
                            staffId |-> payload.staffId])
                    ELSE CreateTransactionInvalid(p, payload)
               /\ ui' = Settle(sent, p)

----------------------------------------------------------------------------
(* Specifications *)

\* The calls of an operation that are under way, and the ids its sequence
\* has left once they have drawn theirs.
Running(op) == Cardinality({p \in Procs : call[p].op = op /\ call[p].ins = Undefined})

\* Spec: the stock flow.  Products are created, updated and deleted while
\* transactions of every type and quantity run concurrently.
StockProductRequests ==
  [name : {"n1"}, description : {Undefined}, sku : Skus,
   category : {Undefined}, unitPrice : {1}, reorderLevel : {1},
   maxStockLevel : {Undefined}]
StockUpdateRequests ==
  [id : 1..StockProducts, name : {"n1"}, description : {Undefined},
   sku : Skus, category : {Undefined}, unitPrice : {1}, reorderLevel : {1},
   maxStockLevel : {Undefined}]
StockTransactionRequests ==
  [productId : 1..StockProducts, transactionType : TransactionTypes,
   quantity : Quantities, staffId : {Undefined}]

Next ==
  \E p \in Procs :
    \/ \E req \in StockProductRequests :
         seq.products < StockProducts /\ CreateProductInsert(p, req) /\ UNCHANGED ui
    \/ CreateProductInventory(p) /\ UNCHANGED ui
    \/ \E req \in StockUpdateRequests : UpdateProduct(p, req) /\ UNCHANGED ui
    \/ \E id \in 1..StockProducts : DeleteProduct(p, id) /\ UNCHANGED ui
    \/ \E req \in StockTransactionRequests :
         /\ seq.transactions + Running("createTransaction") < StockTx
         /\ CreateTransactionBegin(p, req)
         /\ UNCHANGED ui
    \/ CreateTransactionInsert(p) /\ UNCHANGED ui
    \/ CreateTransactionUpdate(p) /\ UNCHANGED ui
    \/ CreateTransactionCommit(p) /\ UNCHANGED ui
    \/ CreateTransactionRollback(p) /\ UNCHANGED ui

Spec == Init /\ [][Next]_vars

\* The handlers of the inventory side (products, inventory, transactions,
\* staff) and those of the asset side (assets, maintenance) share no table,
\* and neither do the create/read/update/delete handlers of products, of
\* staff members and of assets.  SpecKeys and SpecCrud explore each such
\* family of handlers on its own: a family runs while the sequences of the
\* other families are untouched.
Untouched(families) == \A f \in families : seq[f] = 0

\* SpecKeys: the foreign keys.  Products, staff members and assets are
\* created and deleted while transactions and maintenance records that
\* reference them are created.
KeysProductRequests == StockProductRequests
KeysStaffRequests ==
  [employeeId : {"e1"}, email : {Undefined}, hireDate : {Undefined}]
KeysAssetRequests ==
  [assetTag : AssetTags, description : {Undefined},
   purchaseDate : {Undefined}]
KeysTransactionRequests ==
  [productId : 1..KeysProducts, transactionType : {"RECEIVE"},
   quantity : {1},
   staffId : {Undefined} \cup {Some(i) : i \in 0..KeysStaff}]
KeysMaintenanceRequests == [assetId : 1..KeysAssets]

InventorySide == Untouched({"assets"})
AssetSide == Untouched({"products", "staff"})

NextKeys ==
  \E p \in Procs :
    \/ \E req \in KeysProductRequests :
         /\ InventorySide /\ seq.products < KeysProducts
         /\ CreateProductInsert(p, req)
         /\ UNCHANGED ui
    \/ InventorySide /\ CreateProductInventory(p) /\ UNCHANGED ui
    \/ \E id \in 1..KeysProducts : InventorySide /\ DeleteProduct(p, id) /\ UNCHANGED ui
    \/ \E req \in KeysStaffRequests :
         /\ InventorySide /\ seq.staff < KeysStaff
         /\ CreateStaff(p, req)
         /\ UNCHANGED ui
    \/ \E id \in 1..KeysStaff : InventorySide /\ DeleteStaff(p, id) /\ UNCHANGED ui
    \/ \E req \in KeysTransactionRequests :
         /\ InventorySide
         /\ seq.transactions + Running("createTransaction") < KeysTx
         /\ CreateTransactionBegin(p, req)
         /\ UNCHANGED ui
    \/ InventorySide /\ CreateTransactionStaff(p) /\ UNCHANGED ui
    \/ InventorySide /\ CreateTransactionInsert(p) /\ UNCHANGED ui
    \/ InventorySide /\ CreateTransactionUpdate(p) /\ UNCHANGED ui
    \/ InventorySide /\ CreateTransactionCommit(p) /\ UNCHANGED ui
    \/ InventorySide /\ CreateTransactionRollback(p) /\ UNCHANGED ui
    \/ \E id \in 1..KeysProducts :
         InventorySide /\ GetProductTransactions(p, id) /\ UNCHANGED ui
    \/ \E req \in KeysAssetRequests :
         /\ AssetSide /\ seq.assets < KeysAssets
         /\ CreateAsset(p, req)
         /\ UNCHANGED ui
    \/ \E id \in 1..KeysAssets : AssetSide /\ DeleteAsset(p, id) /\ UNCHANGED ui
    \/ \E req \in KeysMaintenanceRequests :
         /\ AssetSide
         /\ seq.maintenance + Running("createMaintenance") < KeysMaint
         /\ CreateMaintenanceSelect(p, req)
         /\ UNCHANGED ui
    \/ AssetSide /\ CreateMaintenanceInsert(p) /\ UNCHANGED ui
    \/ \E id \in 1..KeysAssets : AssetSide /\ GetAssetMaintenance(p, id) /\ UNCHANGED ui

SpecKeys == Init /\ [][NextKeys]_vars

\* SpecCrud: create, read, update and delete of products, assets and staff
\* members with every combination of their unique keys.
CreateProductRequests ==
  [name : Names, description : {Undefined}, sku : Skus,
   category : {Undefined}, unitPrice : {1}, reorderLevel : {1},
   maxStockLevel : {Undefined}]
UpdateProductRequests ==
  [id : ProductIds, name : Names, description : {Undefined}, sku : Skus,
   category : {Undefined}, unitPrice : {1}, reorderLevel : {1},
   maxStockLevel : {Undefined}]
CreateStaffRequests ==
  [employeeId : EmployeeIds, email : Emails, hireDate : {Undefined}]
UpdateStaffRequests ==
  [id : StaffIds, employeeId : EmployeeIds, email : Emails,
   hireDate : {Undefined}]
CreateAssetRequests ==
  [assetTag : AssetTags, description : {Undefined},
   purchaseDate : {Undefined}]
UpdateAssetRequests ==
  [id : AssetIds, assetTag : AssetTags, description : {Undefined},
   purchaseDate : {Undefined}]

ProductsOnly == Untouched({"staff", "assets"})
StaffOnly == Untouched({"products", "assets"})
AssetsOnly == Untouched({"products", "staff"})

NextCrud ==
  \E p \in Procs :
    \/ \E req \in CreateProductRequests :
         /\ ProductsOnly /\ seq.products < MaxProducts
         /\ CreateProductInsert(p, req)
         /\ UNCHANGED ui
    \/ ProductsOnly /\ CreateProductInventory(p) /\ UNCHANGED ui
    \/ \E id \in ProductIds : ProductsOnly /\ GetProduct(p, id) /\ UNCHANGED ui
    \/ \E req \in UpdateProductRequests : ProductsOnly /\ UpdateProduct(p, req) /\ UNCHANGED ui
    \/ \E id \in ProductIds : ProductsOnly /\ DeleteProduct(p, id) /\ UNCHANGED ui
    \/ \E req \in CreateStaffRequests :
         /\ StaffOnly /\ seq.staff < MaxStaff
         /\ CreateStaff(p, req)
         /\ UNCHANGED ui
    \/ \E id \in StaffIds : StaffOnly /\ GetStaff(p, id) /\ UNCHANGED ui
    \/ \E req \in UpdateStaffRequests : StaffOnly /\ UpdateStaff(p, req) /\ UNCHANGED ui
    \/ \E id \in StaffIds : StaffOnly /\ DeleteStaff(p, id) /\ UNCHANGED ui
    \/ \E req \in CreateAssetRequests :
         /\ AssetsOnly /\ seq.assets < MaxAssets
         /\ CreateAsset(p, req)
         /\ UNCHANGED ui
    \/ \E id \in AssetIds : AssetsOnly /\ GetAsset(p, id) /\ UNCHANGED ui
    \/ \E req \in UpdateAssetRequests : AssetsOnly /\ UpdateAsset(p, req) /\ UNCHANGED ui
    \/ \E id \in AssetIds : AssetsOnly /\ DeleteAsset(p, id) /\ UNCHANGED ui

SpecCrud == Init /\ [][NextCrud]_vars

\* SpecFields: the fields of products, staff members and assets.  Rows are
\* created, read, updated and deleted with every combination of their
\* optional fields, dates with and without a time of day.
FieldsProductRequests ==
  [name : {"n1"}, description : Descriptions, sku : {"s1"},
   category : {Undefined}, unitPrice : {1}, reorderLevel : {1},
   maxStockLevel : {Undefined, Some(1)}]
FieldsStaffRequests ==
  [employeeId : {"e1"}, email : Emails,
   hireDate : {Undefined} \cup {Some(d) : d \in Dates}]
FieldsAssetRequests ==
  [assetTag : {"t1"}, description : {Undefined, Some("d1")},
   purchaseDate : {Undefined} \cup {Some(d) : d \in Dates}]

\* The update requests that go with a set of create requests.
WithId(ids, requests) ==
  {[f \in {"id"} \cup DOMAIN req |-> IF f = "id" THEN i ELSE req[f]] :
     i \in ids, req \in requests}

NextFields ==
  \E p \in Procs :
    \/ \E req \in FieldsProductRequests :
         /\ ProductsOnly /\ seq.products < FieldsRows
         /\ CreateProductInsert(p, req)
         /\ UNCHANGED ui
    \/ ProductsOnly /\ CreateProductInventory(p) /\ UNCHANGED ui
    \/ \E id \in 1..FieldsRows : ProductsOnly /\ GetProduct(p, id) /\ UNCHANGED ui
    \/ \E req \in WithId(1..FieldsRows, FieldsProductRequests) :
         ProductsOnly /\ UpdateProduct(p, req) /\ UNCHANGED ui
    \/ \E id \in 1..FieldsRows : ProductsOnly /\ DeleteProduct(p, id) /\ UNCHANGED ui
    \/ \E req \in FieldsStaffRequests :
         /\ StaffOnly /\ seq.staff < FieldsRows
         /\ CreateStaff(p, req)
         /\ UNCHANGED ui
    \/ \E id \in 1..FieldsRows : StaffOnly /\ GetStaff(p, id) /\ UNCHANGED ui
    \/ \E req \in WithId(1..FieldsRows, FieldsStaffRequests) :
         StaffOnly /\ UpdateStaff(p, req) /\ UNCHANGED ui
    \/ \E id \in 1..FieldsRows : StaffOnly /\ DeleteStaff(p, id) /\ UNCHANGED ui
    \/ \E req \in FieldsAssetRequests :
         /\ AssetsOnly /\ seq.assets < FieldsRows
         /\ CreateAsset(p, req)
         /\ UNCHANGED ui
    \/ \E id \in 1..FieldsRows : AssetsOnly /\ GetAsset(p, id) /\ UNCHANGED ui
    \/ \E req \in WithId(1..FieldsRows, FieldsAssetRequests) :
         AssetsOnly /\ UpdateAsset(p, req) /\ UNCHANGED ui
    \/ \E id \in 1..FieldsRows : AssetsOnly /\ DeleteAsset(p, id) /\ UNCHANGED ui

SpecFields == Init /\ [][NextFields]_vars

\* SpecReport: the reads of the stock.  Products with prices, reorder
\* levels and categories are created and deleted and their stock is
\* received and issued while listProducts and getInventoryReport run.
ReportProductRequests ==
  [name : {"n1"}, description : {Undefined}, sku : Skus,
   category : {Undefined, Some("Uncategorized")}, unitPrice : {2},
   reorderLevel : {1}, maxStockLevel : {Undefined}]
ReportTransactionRequests ==
  [productId : 1..ReportProducts, transactionType : {"RECEIVE", "ISSUE"},
   quantity : {1}, staffId : {Undefined}]

NextReport ==
  \E p \in Procs :
    \/ \E req \in ReportProductRequests :
         seq.products < ReportProducts /\ CreateProductInsert(p, req) /\ UNCHANGED ui
    \/ CreateProductInventory(p) /\ UNCHANGED ui
    \/ \E id \in 1..ReportProducts : DeleteProduct(p, id) /\ UNCHANGED ui
    \/ \E req \in ReportTransactionRequests :
         /\ seq.transactions + Running("createTransaction") < ReportTx
         /\ CreateTransactionBegin(p, req)
         /\ UNCHANGED ui
    \/ CreateTransactionInsert(p) /\ UNCHANGED ui
    \/ CreateTransactionUpdate(p) /\ UNCHANGED ui
    \/ CreateTransactionCommit(p) /\ UNCHANGED ui
    \/ CreateTransactionRollback(p) /\ UNCHANGED ui
    \/ ListProducts(p) /\ UNCHANGED ui
    \/ GetInventoryReportTotal(p) /\ UNCHANGED ui
    \/ GetInventoryReportValue(p) /\ UNCHANGED ui
    \/ GetInventoryReportLowStock(p) /\ UNCHANGED ui
    \/ GetInventoryReportOutOfStock(p) /\ UNCHANGED ui
    \/ GetInventoryReportCategories(p) /\ UNCHANGED ui

SpecReport == Init /\ [][NextReport]_vars

\* SpecLowStock: the low stock figures.  Products with reorder levels from
\* 0 on are created and their stock is received and issued while
\* getInventoryReport and getLowStockReport run.
LowStockProductRequests ==
  [name : {"n1"}, description : {Undefined}, sku : Skus,
   category : {Undefined}, unitPrice : {1},
   reorderLevel : 0..LowStockReorder, maxStockLevel : {Undefined}]
LowStockTransactionRequests ==
  [productId : 1..LowStockProducts, transactionType : {"RECEIVE", "ISSUE"},
   quantity : {1}, staffId : {Undefined}]

NextLowStock ==
  \E p \in Procs :
    \/ \E req \in LowStockProductRequests :
         seq.products < LowStockProducts /\ CreateProductInsert(p, req) /\ UNCHANGED ui
    \/ CreateProductInventory(p) /\ UNCHANGED ui
    \/ \E req \in LowStockTransactionRequests :
         /\ seq.transactions + Running("createTransaction") < LowStockTx
         /\ CreateTransactionBegin(p, req)
         /\ UNCHANGED ui
    \/ CreateTransactionInsert(p) /\ UNCHANGED ui
    \/ CreateTransactionUpdate(p) /\ UNCHANGED ui
    \/ CreateTransactionCommit(p) /\ UNCHANGED ui
    \/ CreateTransactionRollback(p) /\ UNCHANGED ui
    \/ GetInventoryReportTotal(p) /\ UNCHANGED ui
    \/ GetInventoryReportValue(p) /\ UNCHANGED ui
    \/ GetInventoryReportLowStock(p) /\ UNCHANGED ui
    \/ GetInventoryReportOutOfStock(p) /\ UNCHANGED ui
    \/ GetInventoryReportCategories(p) /\ UNCHANGED ui
    \/ GetLowStockReport(p) /\ UNCHANGED ui

SpecLowStock == Init /\ [][NextLowStock]_vars

\* SpecUi: the browser session.  The user follows the navigation, opens,
\* edits and submits ProductForm and TransactionForm in every order, while
\* products with and without description and maximum stock level are
\* created through the API.
UiProductRequests ==
  [name : {"n1"}, description : {Undefined, Some("d1")}, sku : {"s1"},
   category : {Undefined}, unitPrice : {1}, reorderLevel : {1},
   maxStockLevel : {Undefined, Some(1)}]
UiProductChanges ==
  {<<"name", "n1">>, <<"sku", "s1">>, <<"description", "d1">>}
UiTransactionSelects ==
  {<<"productId", Some(id)>> : id \in 1..UiProducts}
    \cup {<<"transactionType", Some(t)>> : t \in {"RECEIVE", "ADJUSTMENT"}}
UiQuantities == {Some(0 - 1), Some(1)}

NextUi ==
  \/ \E p \in Procs :
       \/ \E req \in UiProductRequests :
            /\ seq.products < UiProducts
            /\ CreateProductInsert(p, req)
            /\ UNCHANGED ui
       \/ CreateProductInventory(p) /\ ui' = Settle(ui, p)
       \/ ProductsQuery(p)
       \/ /\ IsNull(ui.productForm.product) => seq.products < UiProducts
          /\ ProductFormSubmit(p)
       \/ seq.transactions < UiTx /\ TransactionFormSubmit(p)
       \/ CreateTransactionInsert(p) /\ ui' = Settle(ui, p)
       \/ CreateTransactionUpdate(p) /\ ui' = Settle(ui, p)
       \/ CreateTransactionCommit(p) /\ ui' = Settle(ui, p)
       \/ CreateTransactionRollback(p) /\ ui' = Settle(ui, p)
  \/ \E k \in DOMAIN navigation : Navigate(navigation[k])
  \/ ProductFormAdd
  \/ \E product \in IF IsNull(ui.productsData) THEN {}
                    ELSE ui.productsData[1] : ProductFormEdit(product)
  \/ \E change \in UiProductChanges :
       ProductFormChange(change[1], change[2])
  \/ ProductFormClose
  \/ TransactionFormOpen
  \/ \E select \in UiTransactionSelects :
       TransactionFormSelect(select[1], select[2])
  \/ \E value \in UiQuantities : TransactionFormChange(value)
  \/ TransactionFormClose

SpecUi == Init /\ [][NextUi]_vars

----------------------------------------------------------------------------
(* Properties of the stock flow (Spec) *)

\* Process p ends its request in this step.
Returns(p) == call[p].pc # "idle" /\ call'[p].pc = "idle"

\* Process p has applied the UPDATE of its transaction to a row.
Updated(p) == call[p].op = "createTransaction" /\ call[p].upd # Undefined

\* The signed quantity of a request as the claims state it: +quantity for
\* RECEIVE and ADJUSTMENT, -quantity for ISSUE.
Signed(type, quantity) == IF type = "ISSUE" THEN 0 - quantity ELSE quantity

\* C1: in every committed database state reached by createProduct,
\* updateProduct, deleteProduct and createTransaction requests of any type
\* and quantity, quantity_on_hand of every inventory row is >= 0.
C1_StockNeverNegative == \A r \in inventory : r.quantity_on_hand >= 0

\* An ISSUE has committed and has brought the stock of its product to zero.
C1_Witness ==
  /\ resp.op = "createTransaction" /\ resp.status = "ok"
  /\ resp.req.transactionType = "ISSUE" /\ resp.req.quantity > 0
  /\ \E r \in inventory :
       r.product_id = resp.req.productId /\ r.quantity_on_hand = 0

\* The request of p, applied to the committed row it has locked, gives a
\* negative quantity.
WouldBeNegative(p) ==
  \E r \in InventoryOf(call[p].req.productId) :
    r.quantity_on_hand
      + Signed(call[p].req.transactionType, call[p].req.quantity) < 0

\* C2: a createTransaction request whose application would make
\* quantity_on_hand negative ends with an invalid-argument error, and no
\* step of the call changes the committed tables: no transaction row is
\* added, quantity_on_hand and last_updated stay as they were.
C2_NegativeRejected ==
  [][\A p \in Procs :
       /\ (Updated(p) /\ WouldBeNegative(p) /\ Returns(p))
            => /\ resp'.op = "createTransaction"
               /\ resp'.status = "invalid_argument"
               /\ tables' = tables
       /\ (call[p].op = "createTransaction" /\ Returns(p)
             /\ resp'.status # "ok")
            => tables' = tables
       /\ (call'[p] # call[p] /\ call'[p].op = "createTransaction")
            => tables' = tables]_vars

\* A request was rejected for negative inventory after its row had been
\* inserted and its UPDATE applied inside the transaction.
C2_Witness ==
  /\ resp.op = "createTransaction" /\ resp.status = "invalid_argument"
  /\ seq.transactions > Cardinality(transactions)
  /\ now > 0
  /\ \E r \in inventory : r.product_id = resp.req.productId

\* C3: under every interleaving of concurrent createTransaction requests,
\* each commit changes the committed quantity_on_hand by exactly the signed
\* quantity of its request (no update is lost) and leaves it >= 0, so that
\* concurrent ISSUE requests that together exceed the stock cannot all
\* commit.
C3_NoLostUpdate ==
  [][\A p \in Procs :
       (call[p].pc = "ct_commit" /\ Returns(p))
         => /\ InventoryOf(call[p].req.productId) # {}
            /\ \A r \in InventoryOf(call[p].req.productId) :
                 \E r2 \in inventory' :
                   /\ r2.id = r.id
                   /\ r2.quantity_on_hand = r.quantity_on_hand
                        + Signed(call[p].req.transactionType,
                                 call[p].req.quantity)
                   /\ r2.quantity_on_hand >= 0]_vars

\* Two ISSUE requests for the same product are in flight, both have
\* inserted their row, the stock covers only one of them, one holds the
\* row lock and the other waits for it.
C3_Witness ==
  \E p, q \in Procs :
    /\ p # q
    /\ call[p].pc = "ct_commit" /\ call[q].pc = "ct_update"
    /\ call[p].req.transactionType = "ISSUE"
    /\ call[q].req.transactionType = "ISSUE"
    /\ call[p].req.productId = call[q].req.productId
    /\ \E r \in InventoryOf(call[p].req.productId) :
         /\ r.quantity_on_hand > 0
         /\ r.quantity_on_hand < call[p].req.quantity + call[q].req.quantity

\* C4: createTransaction with a productId that names no existing product
\* responds not-found and records nothing; no such request gets past the
\* lookup of its product.
C4_ProductNotFound ==
  [][/\ \A p \in Procs :
          (call[p].pc = "idle" /\ call'[p].op = "createTransaction")
            => call'[p].req.productId \in DOMAIN products
     /\ (resp'.op = "createTransaction" /\ call' = call)
          => /\ resp'.req.productId \notin DOMAIN products
             /\ resp'.status = "not_found"
             /\ tables' = tables]_vars

\* A transaction for a deleted product was answered not-found.
C4_Witness ==
  /\ resp.op = "createTransaction" /\ resp.status = "not_found"
  /\ resp.req.productId \notin DOMAIN products
  /\ resp.req.productId <= seq.products

\* C17: a createTransaction request that succeeds adds exactly one
\* inventory_transactions row carrying the request's fields and changes
\* the product's quantity_on_hand by exactly +quantity for RECEIVE,
\* -quantity for ISSUE and +quantity (signed) for ADJUSTMENT; both effects
\* become visible together at commit: no other step of the request
\* changes the committed tables.
C17_TransactionEffect ==
  [][\A p \in Procs :
       /\ (call[p].op = "createTransaction" /\ Returns(p)
             /\ resp'.status = "ok")
            => LET req == call[p].req
                   rows == InventoryOf(req.productId)
               IN /\ \E row \in transactions' :
                       /\ row \notin transactions
                       /\ \A t \in transactions : t.id # row.id
                       /\ transactions' = transactions \cup {row}
                       /\ row.product_id = req.productId
                       /\ row.transaction_type = req.transactionType
                       /\ row.quantity = req.quantity
                       /\ row.staff_id = req.staffId
                       /\ resp'.result = Some(row)
                  /\ rows # {}
                  /\ \A r \in rows :
                       \E r2 \in inventory' :
                         /\ r2.id = r.id /\ r2.product_id = r.product_id
                         /\ r2.quantity_on_hand = r.quantity_on_hand
                              + Signed(req.transactionType, req.quantity)
                         /\ r2.quantity_reserved = r.quantity_reserved
                  /\ {r.id : r \in inventory'} = {r.id : r \in inventory}
                  /\ Cardinality(inventory') = Cardinality(inventory)
                  /\ inventory \ inventory' \subseteq rows
                  /\ products' = products
       /\ (call'[p] # call[p]
             /\ "createTransaction" \in {call[p].op, call'[p].op, resp'.op}
             /\ ~(Returns(p) /\ resp'.status = "ok"))
            => tables' = tables]_vars

\* An ADJUSTMENT of -1 has committed after another transaction and has
\* brought the stock to zero.
C17_Witness ==
  /\ resp.op = "createTransaction" /\ resp.status = "ok"
  /\ resp.req.transactionType = "ADJUSTMENT" /\ resp.req.quantity < 0
  /\ resp.result[1] \in transactions
  /\ Cardinality(transactions) >= 2
  /\ \E r \in inventory :
       r.product_id = resp.req.productId /\ r.quantity_on_hand = 0

\* The sum of the signed quantities of a set of transaction rows.
RECURSIVE Ledger(_)
Ledger(rows) ==
  IF rows = {} THEN 0
  ELSE LET t == CHOOSE x \in rows : TRUE
       IN Signed(t.transaction_type, t.quantity) + Ledger(rows \ {t})

\* C18: in every committed state, for every product, quantity_on_hand
\* equals the sum over that product's recorded inventory_transactions of
\* the signed quantity (+q for RECEIVE and ADJUSTMENT, -q for ISSUE),
\* starting from 0 at product creation; a product without an inventory
\* row has no recorded transaction.
C18_LedgerConsistency ==
  \A id \in DOMAIN products :
    LET recorded == {t \in transactions : t.product_id = id}
    IN /\ \A r \in InventoryOf(id) : r.quantity_on_hand = Ledger(recorded)
       /\ InventoryOf(id) = {} => recorded = {}

\* Three transactions of a product are recorded, an ISSUE among them,
\* and the stock is their sum.
C18_Witness ==
  /\ Cardinality(transactions) = 3
  /\ \E t \in transactions :
       t.transaction_type = "ISSUE" /\ t.quantity > 0
  /\ \E r \in inventory : r.quantity_on_hand = 1

\* C19: createTransaction records only transactions whose quantity is
\* non-zero, and strictly positive when the type is RECEIVE or ISSUE, so
\* that a recorded RECEIVE never decreases and a recorded ISSUE never
\* increases quantity_on_hand.
C19_QuantityValidated ==
  \A t \in transactions :
    /\ t.quantity # 0
    /\ t.transaction_type \in {"RECEIVE", "ISSUE"} => t.quantity > 0

\* C20: in every database state a request can observe, the states
\* between the statements of a running createProduct included, every
\* product has exactly one inventory row.
C20_OneInventoryRow ==
  \A id \in DOMAIN products : Cardinality(InventoryOf(id)) = 1

----------------------------------------------------------------------------
(* Properties of the foreign keys (SpecKeys) *)

\* C5: createTransaction with a staffId that names no existing staff row,
\* for every numeric staffId (0 included), responds not-found and records
\* nothing.
C5_StaffNotFound ==
  [][\A p \in Procs :
       (/\ call[p].op = "createTransaction" /\ Returns(p)
        /\ ~IsNull(call[p].req.staffId)
        /\ call[p].req.staffId[1] \notin DOMAIN staff)
         => (resp'.status = "not_found" /\ tables' = tables)]_vars

\* C6: in every committed state, under every interleaving of create and
\* delete requests, each inventory_transactions row references an existing
\* product and, when its staff_id is not null, an existing staff row; each
\* inventory row references an existing product; each asset_maintenance
\* row references an existing asset.
C6_ReferentialIntegrity ==
  /\ \A t \in transactions :
       /\ t.product_id \in DOMAIN products
       /\ IsNull(t.staff_id) \/ t.staff_id[1] \in DOMAIN staff
  /\ \A r \in inventory : r.product_id \in DOMAIN products
  /\ \A m \in maintenance : m.asset_id \in DOMAIN assets

\* The deletion of a staff member was refused because a committed
\* transaction references the staff member.
C6_Witness ==
  /\ resp.op = "deleteStaff" /\ resp.status = "internal"
  /\ resp.req.id \in DOMAIN staff
  /\ \E t \in transactions :
       t.staff_id = Some(resp.req.id) /\ t.product_id \in DOMAIN products

\* C14: deleteStaff(id) for an existing staff member always succeeds and
\* removes the staff row, whether or not committed inventory transactions
\* reference that staff member through staff_id.
C14_DeleteStaffSucceeds ==
  [][(resp'.op = "deleteStaff" /\ resp'.req.id \in DOMAIN staff)
       => (resp'.status = "ok" /\ resp'.req.id \notin DOMAIN staff')]_vars

\* The id a list request names does not exist.
ListsMissing(r) ==
  \/ r.op = "getProductTransactions" /\ r.req.productId \notin DOMAIN products
  \/ r.op = "getAssetMaintenance" /\ r.req.assetId \notin DOMAIN assets

\* C9: getProductTransactions with a productId that names no existing
\* product and getAssetMaintenance with an assetId that names no existing
\* asset respond not-found.
C9_ListNotFound == [][ListsMissing(resp') => resp'.status = "not_found"]_vars

\* C9 as amended: both respond successfully with an empty list and leave
\* the database unchanged.
C9_ListEmpty ==
  [][ListsMissing(resp')
       => /\ resp'.status = "ok"
          /\ resp'.result = Some({})
          /\ tables' = tables]_vars

\* The maintenance records of a missing asset were listed while another
\* asset has a maintenance record.
C9_Witness ==
  /\ resp.op = "getAssetMaintenance" /\ resp.status = "ok"
  /\ resp.req.assetId \notin DOMAIN assets
  /\ resp.result = Some({})
  /\ maintenance # {}

----------------------------------------------------------------------------
(* Properties of create, read, update and delete (SpecCrud) *)

\* The table an operation addresses.
TableOf(op) ==
  CASE op \in {"getProduct", "updateProduct", "deleteProduct"} -> products
    [] op \in {"getAsset", "updateAsset", "deleteAsset"} -> assets
    [] op \in {"getStaff", "updateStaff", "deleteStaff"} -> staff

\* The response r answers one of the operations ops, called with an id
\* that names no row.
Missing(r, ops) == r.op \in ops /\ r.req.id \notin DOMAIN TableOf(r.op)

\* C7: getProduct, getAsset, getStaff, deleteProduct, deleteAsset and
\* deleteStaff called with an id that names no existing row respond
\* not-found and leave the database unchanged.
C7_GetDeleteNotFound ==
  [][Missing(resp', {"getProduct", "getAsset", "getStaff",
                     "deleteProduct", "deleteAsset", "deleteStaff"})
       => (resp'.status = "not_found" /\ tables' = tables)]_vars

\* A delete named the id of a row that had been deleted before, while
\* another row of the table exists.
C7_Witness ==
  /\ resp.op = "deleteAsset" /\ resp.status = "not_found"
  /\ resp.req.id \notin DOMAIN assets
  /\ resp.req.id <= seq.assets
  /\ assets # << >>

\* C8: updateProduct, updateAsset and updateStaff called with an id that
\* names no existing row respond not-found and leave the database
\* unchanged.
C8_UpdateNotFound ==
  [][Missing(resp', {"updateProduct", "updateAsset", "updateStaff"})
       => (resp'.status = "not_found" /\ tables' = tables)]_vars

\* The sequence that hands out the ids of the table an operation
\* addresses.
SeqOf(op) ==
  CASE op \in {"getProduct", "updateProduct", "deleteProduct"} -> seq.products
    [] op \in {"getAsset", "updateAsset", "deleteAsset"} -> seq.assets
    [] op \in {"getStaff", "updateStaff", "deleteStaff"} -> seq.staff

\* The ids of a table that were handed out and name no row: the ids of
\* deleted rows (and those a failed INSERT has used up).
Gone(table, last) == (1..last) \ DOMAIN table

\* C13: after deleteProduct, deleteAsset or deleteStaff succeeds for id i,
\* every later getX(i), updateX(i) and deleteX(i) fails and changes
\* nothing, and the row never reappears under id i: a delete removes the
\* row, an id without a row stays without one, and a new row gets an id
\* that was never handed out.
C13_DeletedStaysDeleted ==
  [][/\ (resp'.op = "deleteProduct" /\ resp'.status = "ok")
          => /\ resp'.req.id \in DOMAIN products
             /\ resp'.req.id \in Gone(products', seq.products')
     /\ (resp'.op = "deleteAsset" /\ resp'.status = "ok")
          => /\ resp'.req.id \in DOMAIN assets
             /\ resp'.req.id \in Gone(assets', seq.assets')
     /\ (resp'.op = "deleteStaff" /\ resp'.status = "ok")
          => /\ resp'.req.id \in DOMAIN staff
             /\ resp'.req.id \in Gone(staff', seq.staff')
     /\ (/\ Missing(resp', {"getProduct", "getAsset", "getStaff",
                            "updateProduct", "updateAsset", "updateStaff",
                            "deleteProduct", "deleteAsset", "deleteStaff"})
         /\ resp'.req.id <= SeqOf(resp'.op))
          => (resp'.status # "ok" /\ tables' = tables)
     /\ Gone(products, seq.products) \subseteq Gone(products', seq.products')
     /\ Gone(assets, seq.assets) \subseteq Gone(assets', seq.assets')
     /\ Gone(staff, seq.staff) \subseteq Gone(staff', seq.staff')
     /\ \A i \in DOMAIN products' \ DOMAIN products : i > seq.products
     /\ \A i \in DOMAIN assets' \ DOMAIN assets : i > seq.assets
     /\ \A i \in DOMAIN staff' \ DOMAIN staff : i > seq.staff]_vars

\* An asset was created and deleted, another asset was created after it,
\* and a read of the deleted asset's id was answered not-found.
C13_Witness ==
  /\ resp.op = "getAsset" /\ resp.status = "not_found"
  /\ resp.req.id \in Gone(assets, seq.assets)
  /\ \E i \in DOMAIN assets : i > resp.req.id

\* No two rows share a unique key.
UniqueKeys ==
  /\ \A i, j \in DOMAIN products :
       i # j => products[i].sku # products[j].sku
  /\ \A i, j \in DOMAIN assets :
       i # j => assets[i].asset_tag # assets[j].asset_tag
  /\ \A i, j \in DOMAIN staff :
       i # j => /\ staff[i].employee_id # staff[j].employee_id
                /\ IsNull(staff[i].email) \/ staff[i].email # staff[j].email

\* The unique key of the create or update request of response r is held
\* by a row other than the one the request addresses.
Collides(r) ==
  \/ /\ r.op = "createProduct"
     /\ \E i \in DOMAIN products : products[i].sku = r.req.sku
  \/ /\ r.op = "updateProduct" /\ r.req.id \in DOMAIN products
     /\ \E i \in DOMAIN products \ {r.req.id} : products[i].sku = r.req.sku
  \/ /\ r.op = "createAsset"
     /\ \E i \in DOMAIN assets : assets[i].asset_tag = r.req.assetTag
  \/ /\ r.op = "updateAsset" /\ r.req.id \in DOMAIN assets
     /\ \E i \in DOMAIN assets \ {r.req.id} :
          assets[i].asset_tag = r.req.assetTag
  \/ /\ r.op \in {"createStaff", "updateStaff"}
     /\ r.op = "updateStaff" => r.req.id \in DOMAIN staff
     /\ \E i \in DOMAIN staff \ (IF r.op = "updateStaff"
                                  THEN {r.req.id} ELSE {}) :
          \/ staff[i].employee_id = r.req.employeeId
          \/ ~IsNull(r.req.email) /\ staff[i].email = r.req.email

\* Process p starts a createProduct request in this step and goes on to
\* its second statement.
Proceeds(p) == call[p].pc = "idle" /\ call'[p].op = "createProduct"

\* C10: a create or update whose unique key (product SKU, asset tag,
\* staff employee id, staff non-null email) collides with another existing
\* row responds already-exists and changes nothing, and in every state no
\* two rows share such a key.  (A createProduct that responds while no
\* call changes its position has failed at its INSERT INTO products.)
C10_UniqueKeys ==
  [][/\ (Collides(resp') /\ (resp'.op = "createProduct" => call' = call))
          => (resp'.status = "already_exists" /\ tables' = tables)
     /\ \A p \in Procs :
          Proceeds(p) => \A i \in DOMAIN products :
                           products[i].sku # call'[p].req.sku
     /\ UniqueKeys']_vars

\* An update of a staff member was refused because another staff member
\* has the e-mail address, while their employee ids differ.
C10_Witness ==
  /\ resp.op = "updateStaff" /\ resp.status = "already_exists"
  /\ resp.req.id \in DOMAIN staff
  /\ \E i \in DOMAIN staff \ {resp.req.id} :
       /\ staff[i].email = resp.req.email
       /\ staff[i].employee_id # resp.req.employeeId

----------------------------------------------------------------------------
(* Properties of the fields (SpecFields) *)

\* An optional field of a request is either omitted or carried by the
\* record.
Supplied(field, value) == IsNull(field) \/ value = field

\* A Date of a request and the Date of a record name the same calendar
\* day.
SameDay(field, value) ==
  IsNull(field) \/ (~IsNull(value) /\ value[1].day = field[1].day)

\* The record rec carries the fields the create request req supplies;
\* SameDate compares a Date field of the request with that of the record.
ProductAgrees(rec, req) ==
  /\ rec.row.name = req.name /\ rec.row.sku = req.sku
  /\ rec.row.unit_price = req.unitPrice
  /\ rec.row.reorder_level = req.reorderLevel
  /\ Supplied(req.description, rec.row.description)
  /\ Supplied(req.category, rec.row.category)
  /\ Supplied(req.maxStockLevel, rec.row.max_stock_level)
StaffAgrees(rec, req, SameDate(_, _)) ==
  /\ rec.row.employee_id = req.employeeId
  /\ Supplied(req.email, rec.row.email)
  /\ SameDate(req.hireDate, rec.row.hire_date)
AssetAgrees(rec, req, SameDate(_, _)) ==
  /\ rec.row.asset_tag = req.assetTag
  /\ Supplied(req.description, rec.row.description)
  /\ SameDate(req.purchaseDate, rec.row.purchase_date)

\* Row i of table is deleted or changed in this step.
Touched(table, tableNext, i) ==
  i \notin DOMAIN tableNext \/ tableNext[i] # table[i]

\* This step applies an update or a delete of row i.
Applies(ops, i) ==
  resp'.op \in ops /\ resp'.status = "ok" /\ resp'.req.id = i

\* Create then read: (1) the step that inserts a row leaves under the new
\* id a row whose record agrees with the request, (2) a successful getX(i)
\* returns the record of the row stored under i, (3) a stored row is
\* changed or removed only by a step that applies an update or a delete
\* of its id.
CreateThenRead(SameDate(_, _)) ==
  /\ \A p \in Procs :
       (call[p].pc = "idle" /\ call'[p].op = "createProduct")
         => LET id == call'[p].ins[1].id
            IN /\ id \in DOMAIN products' /\ id \notin DOMAIN products
               /\ ProductAgrees(ProductRecord(id, products'[id]),
                                call'[p].req)
               /\ call'[p].ins[1] = ProductRecord(id, products'[id])
  /\ (resp'.op = "createStaff" /\ resp'.status = "ok")
       => LET id == resp'.result[1].id
          IN /\ id \in DOMAIN staff' /\ id \notin DOMAIN staff
             /\ StaffAgrees(StaffRecord(id, staff'[id]), resp'.req,
                            SameDate)
  /\ (resp'.op = "createAsset" /\ resp'.status = "ok")
       => LET id == resp'.result[1].id
          IN /\ id \in DOMAIN assets' /\ id \notin DOMAIN assets
             /\ AssetAgrees(AssetRecord(id, assets'[id]), resp'.req,
                            SameDate)
  /\ (resp'.op = "getProduct" /\ resp'.status = "ok")
       => /\ resp'.result[1].id = resp'.req.id
          /\ resp'.result[1].row = products[resp'.req.id]
  /\ (resp'.op = "getStaff" /\ resp'.status = "ok")
       => /\ resp'.result[1].id = resp'.req.id
          /\ resp'.result[1].row.employee_id
               = staff[resp'.req.id].employee_id
          /\ resp'.result[1].row.email = staff[resp'.req.id].email
          /\ resp'.result[1].row.hire_date
               = StaffRecord(0, staff[resp'.req.id]).row.hire_date
  /\ (resp'.op = "getAsset" /\ resp'.status = "ok")
       => /\ resp'.result[1].id = resp'.req.id
          /\ resp'.result[1].row.asset_tag = assets[resp'.req.id].asset_tag
          /\ resp'.result[1].row.description
               = assets[resp'.req.id].description
          /\ resp'.result[1].row.purchase_date
               = AssetRecord(0, assets[resp'.req.id]).row.purchase_date
  /\ \A i \in DOMAIN products :
       Touched(products, products', i)
         => Applies({"updateProduct", "deleteProduct"}, i)
  /\ \A i \in DOMAIN staff :
       Touched(staff, staff', i) => Applies({"updateStaff", "deleteStaff"}, i)
  /\ \A i \in DOMAIN assets :
       Touched(assets, assets', i)
         => Applies({"updateAsset", "deleteAsset"}, i)

\* C11: for product, asset and staff, after createX(req) succeeds and
\* returns id i, getX(i) returns a record whose request-supplied fields
\* equal those of req, and keeps doing so until an update or delete of i
\* is applied.
C11_CreateThenRead == [][CreateThenRead(Supplied)]_vars

\* C11 as amended: the fields equal those of req, a Date field
\* (purchaseDate, hireDate) in its calendar day only: the record carries
\* midnight of the day of the request's Date.
C11_CreateThenReadDay ==
  [][/\ CreateThenRead(SameDay)
     /\ (resp'.op \in {"getStaff", "createStaff"} /\ resp'.status = "ok"
           /\ ~IsNull(resp'.result[1].row.hire_date))
          => resp'.result[1].row.hire_date[1].ms = 0
     /\ (resp'.op \in {"getAsset", "createAsset"} /\ resp'.status = "ok"
           /\ ~IsNull(resp'.result[1].row.purchase_date))
          => resp'.result[1].row.purchase_date[1].ms = 0]_vars

\* An asset created with a description and a purchase date was read back.
C11_Witness ==
  /\ resp.op = "getAsset" /\ resp.status = "ok"
  /\ resp.result[1].row.description = Some("d1")
  /\ resp.result[1].row.purchase_date = Some([day |-> 2, ms |-> 0])
  /\ seq.assets = resp.req.id

\* C12: for updateProduct, updateAsset and updateStaff, every optional
\* field of the addressed record that the request omits keeps the value
\* it had before the update.
C12_UpdateKeepsOmitted ==
  [][/\ (resp'.op = "updateProduct" /\ resp'.status = "ok")
          => LET id == resp'.req.id
             IN /\ IsNull(resp'.req.description)
                     => products'[id].description = products[id].description
                /\ IsNull(resp'.req.category)
                     => products'[id].category = products[id].category
                /\ IsNull(resp'.req.maxStockLevel)
                     => products'[id].max_stock_level
                          = products[id].max_stock_level
     /\ (resp'.op = "updateStaff" /\ resp'.status = "ok")
          => LET id == resp'.req.id
             IN /\ IsNull(resp'.req.email)
                     => staff'[id].email = staff[id].email
                /\ IsNull(resp'.req.hireDate)
                     => staff'[id].hire_date = staff[id].hire_date
     /\ (resp'.op = "updateAsset" /\ resp'.status = "ok")
          => LET id == resp'.req.id
             IN /\ IsNull(resp'.req.description)
                     => assets'[id].description = assets[id].description
                /\ IsNull(resp'.req.purchaseDate)
                     => assets'[id].purchase_date
                          = assets[id].purchase_date]_vars

----------------------------------------------------------------------------
(* Properties of the reads of the stock (SpecReport) *)

\* The products that have stock, and the quantity on hand of one.
Stocked == {id \in DOMAIN products : InventoryOf(id) # {}}
OnHand(id) == (CHOOSE r \in InventoryOf(id) : TRUE).quantity_on_hand

\* The reference computation of the total value: the sum over the
\* products ids of unit_price * quantity_on_hand.
RECURSIVE ValueOf(_)
ValueOf(ids) ==
  IF ids = {} THEN 0
  ELSE LET id == CHOOSE i \in ids : TRUE
       IN products[id].unit_price * OnHand(id) + ValueOf(ids \ {id})

\* Process p runs the query of getInventoryReport that leaves it at
\* position next.
Queries(p, next) == call[p].pc # next /\ call'[p].pc = next

\* C15: for every database state, getInventoryReport returns
\* totalProducts = number of products, totalValue = sum over products of
\* unit_price * quantity_on_hand, lowStockItems = number of products with
\* 0 < quantity_on_hand <= reorder_level, and outOfStockItems = number of
\* products with quantity_on_hand = 0: each query of the report yields the
\* figure of the state it runs on, and the report returns the figures of
\* its queries.
C15_InventoryReport ==
  [][\A p \in Procs :
       /\ Queries(p, "ir_value")
            => call'[p].ins[1].totalProducts = Cardinality(DOMAIN products)
       /\ Queries(p, "ir_low")
            => call'[p].ins[1].totalValue = ValueOf(Stocked)
       /\ Queries(p, "ir_out")
            => call'[p].ins[1].lowStockItems =
                 Cardinality({id \in Stocked :
                    /\ 0 < OnHand(id)
                    /\ OnHand(id) <= products[id].reorder_level})
       /\ Queries(p, "ir_categories")
            => call'[p].ins[1].outOfStockItems =
                 Cardinality({id \in Stocked : OnHand(id) = 0})
       /\ (call[p].pc = "ir_categories" /\ Returns(p))
            => /\ resp'.op = "getInventoryReport" /\ resp'.status = "ok"
               /\ \A f \in {"totalProducts", "totalValue", "lowStockItems",
                             "outOfStockItems"} :
                    resp'.result[1][f] = call[p].ins[1][f]]_vars

\* A report was returned for two products, one out of stock and one in
\* low stock, and describes the state it was returned in.
C15_Witness ==
  /\ resp.op = "getInventoryReport" /\ resp.status = "ok"
  /\ resp.result[1].totalProducts = 2
  /\ resp.result[1].totalValue = 2
  /\ resp.result[1].lowStockItems = 1
  /\ resp.result[1].outOfStockItems = 1
  /\ Cardinality(Stocked) = 2 /\ ValueOf(Stocked) = 2

\* C16: in every reachable state and for every product returned by
\* listProducts, inventory.quantityAvailable equals inventory.quantityOnHand
\* minus inventory.quantityReserved, including immediately after each
\* committed createTransaction; listProducts returns every product, with
\* the columns of its inventory row.
C16_QuantityAvailable ==
  [][/\ \A r \in inventory' :
          r.quantity_available = r.quantity_on_hand - r.quantity_reserved
     /\ resp'.op = "listProducts"
          => /\ {e.id : e \in resp'.result[1]} = DOMAIN products
             /\ \A e \in resp'.result[1] :
                  /\ IsNull(e.inventory) <=> InventoryOf(e.id) = {}
                  /\ ~IsNull(e.inventory)
                       => LET i == e.inventory[1]
                          IN /\ i.quantityAvailable
                                  = i.quantityOnHand - i.quantityReserved
                             /\ \E r \in InventoryOf(e.id) :
                                  /\ r.id = i.id
                                  /\ r.quantity_on_hand = i.quantityOnHand
                                  /\ r.quantity_reserved
                                       = i.quantityReserved]_vars

\* listProducts returned a product whose stock a committed transaction
\* has raised.
C16_Witness ==
  /\ resp.op = "listProducts"
  /\ transactions # {}
  /\ \E e \in resp.result[1] :
       /\ ~IsNull(e.inventory)
       /\ e.inventory[1].quantityOnHand > 0
       /\ e.inventory[1].quantityAvailable = e.inventory[1].quantityOnHand

\* C21: after createProduct returns successfully, the new product has
\* exactly one inventory row, with quantity_on_hand = 0 and
\* quantity_reserved = 0; a product lacks its inventory row only while its
\* createProduct has not returned, and listProducts returns every product
\* that has an inventory row with that row attached.
C21_CreateProductInventory ==
  [][/\ (resp'.op = "createProduct" /\ resp'.status = "ok")
          => LET id == resp'.result[1].id
             IN /\ id \in DOMAIN products'
                /\ \E r \in inventory' :
                     /\ {i \in inventory' : i.product_id = id} = {r}
                     /\ r.quantity_on_hand = 0
                     /\ r.quantity_reserved = 0
     /\ \A id \in DOMAIN products :
          InventoryOf(id) = {}
            => \E p \in Procs :
                 call[p].pc = "cp_inventory" /\ call[p].ins[1].id = id
     /\ resp'.op = "listProducts"
          => \A id \in Stocked :
               \E e \in resp'.result[1], r \in InventoryOf(id) :
                 /\ e.id = id /\ e.row = products[id]
                 /\ ~IsNull(e.inventory)
                 /\ e.inventory[1].id = r.id
                 /\ e.inventory[1].productId = id
                 /\ e.inventory[1].quantityOnHand = r.quantity_on_hand
                 /\ e.inventory[1].quantityReserved
                      = r.quantity_reserved]_vars

\* listProducts returned a product that no transaction has touched, with
\* the inventory row createProduct gave it.
C21_Witness ==
  /\ resp.op = "listProducts"
  /\ seq.transactions = 0
  /\ \E e \in resp.result[1] :
       /\ ~IsNull(e.inventory)
       /\ e.inventory[1].quantityOnHand = 0
       /\ e.inventory[1].quantityReserved = 0
       /\ InventoryOf(e.id) # {}

----------------------------------------------------------------------------
(* Properties of the rows that reference a product (SpecKeys) *)

\* C22: deleteProduct(p) for an existing product succeeds whatever
\* inventory and transaction rows reference p; after it no inventory row
\* and no inventory_transactions row with product_id p remains, and the
\* rows of every other product, every staff member and every asset are
\* unchanged.
C22_DeleteProductCascades ==
  [][(resp'.op = "deleteProduct" /\ resp'.req.id \in DOMAIN products)
       => LET id == resp'.req.id
          IN /\ resp'.status = "ok"
             /\ id \notin DOMAIN products'
             /\ \A r \in inventory' : r.product_id # id
             /\ \A t \in transactions' : t.product_id # id
             /\ \A i \in DOMAIN products \ {id} :
                  i \in DOMAIN products' /\ products'[i] = products[i]
             /\ DOMAIN products' \subseteq DOMAIN products
             /\ {r \in inventory : r.product_id # id} = inventory'
             /\ {t \in transactions : t.product_id # id} = transactions'
             /\ UNCHANGED <<staff, assets, maintenance>>]_vars

\* A product was deleted while another product keeps its inventory row
\* and its transaction; the second transaction row is gone.
C22_Witness ==
  /\ resp.op = "deleteProduct" /\ resp.status = "ok"
  /\ seq.transactions = 2 /\ seq.inventory = 2
  /\ \E i \in DOMAIN products, r \in inventory, t \in transactions :
       /\ inventory = {r} /\ r.product_id = i /\ r.quantity_on_hand = 1
       /\ transactions = {t} /\ t.product_id = i

\* Process p takes a step of a createTransaction request.
TransactionStep(p) ==
  \/ /\ call'[p] # call[p]
     /\ "createTransaction" \in {call[p].op, call'[p].op}
  \/ /\ call[p].pc = "idle" /\ call'[p].pc = "idle"
     /\ resp'.op = "createTransaction"

\* The product a createTransaction step of p is for.
TransactionProduct(p) ==
  IF call[p].op = "createTransaction" THEN call[p].req.productId
  ELSE IF call'[p].op = "createTransaction" THEN call'[p].req.productId
  ELSE resp'.req.productId

\* C23: inventory transactions are append-only: the fields of a committed
\* row never change, the row is removed only by the deletion of its
\* product, and a createTransaction for product p changes no inventory
\* row other than p's and no product, asset, staff or maintenance row.
C23_TransactionsAppendOnly ==
  [][/\ \A t \in transactions :
          \/ t \in transactions'
          \/ /\ resp'.op = "deleteProduct" /\ resp'.status = "ok"
             /\ resp'.req.id = t.product_id
             /\ \A u \in transactions' : u.id # t.id
     /\ \A p \in Procs :
          TransactionStep(p)
            => /\ UNCHANGED <<products, staff, assets, maintenance>>
               /\ {r \in inventory : r.product_id # TransactionProduct(p)}
                    = {r \in inventory' :
                         r.product_id # TransactionProduct(p)}]_vars

\* A staff member was asked to be deleted after a transaction that names
\* them has committed; the row of the transaction is as it was committed.
C23_Witness ==
  /\ resp.op = "deleteStaff"
  /\ \E t \in transactions :
       /\ t.staff_id = Some(resp.req.id)
       /\ t.transaction_type = "RECEIVE" /\ t.quantity = 1
       /\ \E r \in InventoryOf(t.product_id) : r.quantity_on_hand >= 1

----------------------------------------------------------------------------
(* Properties of the low stock figures (SpecLowStock) *)

\* C24: the 'Low Stock Items' figure is the same on the Dashboard
\* (inventoryReport.lowStockItems) and on the Reports page (the number of
\* products returned by getLowStockReport) for every database state: the
\* low stock query of getInventoryReport and the query of
\* getLowStockReport, run on the same state, give the same figure.
C24_LowStockFiguresAgree ==
  [][\A p \in Procs :
       Queries(p, "ir_out")
         => \A report \in LowStockReport :
              DashboardLowStockItems(call'[p].ins)
                = ReportsLowStockItems(Some(report))]_vars

\* C27: getLowStockReport returns exactly the products with
\* quantity_on_hand <= reorder_level, each once, ordered by ascending
\* ratio quantity_on_hand / reorder_level, with the products whose
\* reorder_level is 0 placed after all products that have a defined ratio.
C27_LowStockReport ==
  [][resp'.op = "getLowStockReport"
       => LET report == resp'.result[1]
              n == Len(report)
          IN /\ resp'.status = "ok"
             /\ {report[k].id : k \in 1..n}
                  = {id \in Stocked :
                       OnHand(id) <= products[id].reorder_level}
             /\ \A a, b \in 1..n : a # b => report[a].id # report[b].id
             /\ \A k \in 1..n :
                  /\ report[k].quantityOnHand = OnHand(report[k].id)
                  /\ report[k].reorderLevel
                       = products[report[k].id].reorder_level
             /\ \A a, b \in 1..n :
                  a < b =>
                    /\ report[a].reorderLevel = 0
                         => report[b].reorderLevel = 0
                    /\ (report[a].reorderLevel # 0
                          /\ report[b].reorderLevel # 0)
                         => report[a].quantityOnHand * report[b].reorderLevel
                              <= report[b].quantityOnHand
                                   * report[a].reorderLevel]_vars

\* The report lists a product at its reorder level before a product whose
\* reorder level is 0.
C27_Witness ==
  /\ resp.op = "getLowStockReport" /\ Len(resp.result[1]) = 2
  /\ resp.result[1][1].reorderLevel > 0
  /\ resp.result[1][1].quantityOnHand = resp.result[1][1].reorderLevel
  /\ resp.result[1][2].reorderLevel = 0

\* The report lists two products with different defined ratios.
C27_WitnessRatio ==
  /\ resp.op = "getLowStockReport" /\ Len(resp.result[1]) = 2
  /\ resp.result[1][1].reorderLevel = 2
  /\ resp.result[1][1].quantityOnHand = 1
  /\ resp.result[1][2].reorderLevel = 1
  /\ resp.result[1][2].quantityOnHand = 1

----------------------------------------------------------------------------
(* Properties of the inventory report (SpecReport) *)

\* The sum of field f over the entries of a categories list.
RECURSIVE SumOver(_, _)
SumOver(categories, f) ==
  IF categories = << >> THEN 0
  ELSE Head(categories)[f] + SumOver(Tail(categories), f)

\* C25: every getInventoryReport result is internally consistent: the sum
\* of categories[].value equals totalValue and the sum of
\* categories[].count equals totalProducts, also when createProduct,
\* createTransaction or deleteProduct requests commit between the five
\* queries of the report.
C25_ReportConsistent ==
  resp.op = "getInventoryReport"
    => /\ SumOver(resp.result[1].categories, "value")
            = resp.result[1].totalValue
       /\ SumOver(resp.result[1].categories, "count")
            = resp.result[1].totalProducts

\* C26: in the categories list of getInventoryReport each category name
\* occurs at most once, for every database state, including states where
\* some products have no category and others have the literal category
\* 'Uncategorized'.
C26_CategoryNamesDistinct ==
  resp.op = "getInventoryReport"
    => LET categories == resp.result[1].categories
       IN \A a, b \in 1..Len(categories) :
            a # b => categories[a].category # categories[b].category

----------------------------------------------------------------------------
(* Properties of the browser session (SpecUi) *)

\* C28: opening ProductForm on an existing product and submitting it
\* without changing any field leaves every stored field of that product
\* unchanged, for every product state including one whose description,
\* category or maxStockLevel is null.
C28_UnchangedSubmitKeepsProduct ==
  [][LET form == ui.productForm
     IN (/\ form.isOpen /\ ~IsNull(form.product)
         /\ form.values = ProductFormReset(form.product[1])
         /\ form.product[1].id \in DOMAIN products
         /\ products[form.product[1].id] = form.product[1].row
         /\ resp'.op = "updateProduct" /\ resp'.status = "ok")
          => products'[form.product[1].id]
               = products[form.product[1].id]]_vars

\* The step hands a request to createTransaction.
CallsCreateTransaction ==
  /\ \A q \in Procs : call[q].op # "createTransaction"
  /\ \/ resp'.op = "createTransaction"
     \/ \E p \in Procs : call'[p].op = "createTransaction"

\* The step is the first submit of the open TransactionForm.
SubmitsTransactionForm ==
  /\ ui.transactionForm.isOpen
  /\ ~ui.transactionForm.isSubmitted
  /\ ui'.transactionForm.isSubmitted \/ CallsCreateTransaction

\* C29: TransactionForm calls createTransaction only after a product and
\* a transaction type have been selected: a submit with either one
\* unselected is blocked and shows 'Product is required' or 'Transaction
\* type is required', for every order of field edits and submit events.
C29_SubmitNeedsProductAndType ==
  [][LET values == ui.transactionForm.values
     IN /\ CallsCreateTransaction
             => /\ ~IsNull(values.productId)
                /\ ~IsNull(values.transactionType)
        /\ (SubmitsTransactionForm /\ IsNull(values.productId))
             => /\ ~CallsCreateTransaction
                /\ "productId" \in ui'.transactionForm.errors
        /\ (SubmitsTransactionForm /\ IsNull(values.transactionType))
             => /\ ~CallsCreateTransaction
                /\ "transactionType" \in ui'.transactionForm.errors]_vars

\* C30: every navigation item rendered by Layout links to a path for
\* which App defines a route: wherever the navigation links have led,
\* the location renders a page component.
C30_LocationRendersPage == ~IsNull(Routes(ui.pathname))

====
